---- MODULE Spec2Model ----
(***************************************************************************)
(* Model of the fraud-classification notebook                              *)
(* (transaction_fraud_classifier.ipynb): the Datasets splitter, the        *)
(* AttributeSelector / MyLabelBinarizer adapters and the two-branch        *)
(* data_prep_pipeline (FeatureUnion of quant_pipeline and qual_pipeline).  *)
(*                                                                         *)
(* A data frame is a record [columns, rows]; columns is the ordered list   *)
(* of column names, rows the ordered list of [idx, val] where idx is the   *)
(* index label of the row and val maps each column name to the cell.       *)
(* A real number is kept exactly as [sgn, num, den], standing for          *)
(* sgn * sqrt(num/den) with num/den in lowest terms.                       *)
(***************************************************************************)
EXTENDS Integers, Sequences, FiniteSets

VARIABLES data, allFeatures, datasets, test_size_arg, pipeline,
          X_Prepared, X_Test_Prepared, X_Transformed, lastError,
          graph_data, featured, y_true, scored,
          pc, sgd_clf, predictions, conf_matrix, measures, all_features,
          chunk_list, task, worker, ret_list, completed,
          query, sessions, call, shown

\* the names of the preparation cells
prepVars == <<data, allFeatures, datasets, test_size_arg, pipeline,
              X_Prepared, X_Test_Prepared, X_Transformed, lastError>>

\* graph.data as the query returned it, and the frame applyParallel gives
rollVars == <<graph_data, featured>>

\* a label vector and a predicted labelling of it, with their scores
metricVars == <<y_true, scored>>

\* the names of the evaluation cells; pc is the line of the statement a
\* run of the notebook from top to bottom executes next, shown the value
\* the test-performance cell puts out
harnessVars == <<pc, sgd_clf, predictions, conf_matrix, measures, all_features, shown>>

\* the process pool of applyParallel: the list of chunks handed to p.map,
\* the state of the task of each chunk, the task each worker process is
\* running (0 when it is idle), the results p.map has received and the
\* order in which the tasks ended
poolVars == <<chunk_list, task, worker, ret_list, completed>>

\* the Database object graph: its query attribute, the sessions its
\* driver has handed out and the getData or runQuery call under way
dbVars == <<query, sessions, call>>

\* what the preparation cells, the window-feature cell and the scoring
\* functions each leave alone
notPrepVars == <<rollVars, metricVars, harnessVars, poolVars, dbVars>>
notRollVars == <<prepVars, metricVars, harnessVars, poolVars, dbVars>>
notMetricVars == <<prepVars, rollVars, harnessVars, poolVars, dbVars>>

vars == <<prepVars, rollVars, metricVars, harnessVars, poolVars, dbVars>>

\* ---------------------------------------------------------------- bounds
MaxRows == 4
CpuCount == 2
MaxTx == 8
MaxLabels == 4
NotebookRows == 10
MaxCalls == 3
TestCellRows == 25

\* ------------------------------------------------------------- constants
\* an unbound name or unset attribute is None; a bound one holds Some(v)
None == <<>>
Some(v) == <<v>>
NoError == "none"
NaN == "NaN"
First == "First"
RandomState == 42
DefaultTestSize == <<1, 4>>
TestSizes == {<<1, 4>>, <<1, 2>>}
DatasetNames == {"ml_data", "graph_ml_data"}
LabelColumn == "fraudulentTx"
DroppedColumns == {"data_chunk", "txOrder", "fromId", "toId"}
ObjectColumns == {"txType", "previousTxType"}
DataColumns == <<"fromId", "txType", "txAmount", "txOrder", "fraudulentTx",
                 "toId", "previousTxType", "min7PrevTxAmount",
                 "mean7PrevTxAmount", "max7PrevTxAmount", "data_chunk">>
GraphColumns == <<"id", "pageRank", "betweenness", "triangleCount", "closeness">>

\* category values in Python string order (np.unique sorts them this way)
SortedValues == <<"CASH_IN", "CASH_OUT", "First", "TRANSFER">>

\* ------------------------------------------------------ sequence helpers
Range(s) == {s[i] : i \in DOMAIN s}

RECURSIVE SeqSum(_)
SeqSum(s) == IF s = <<>> THEN 0 ELSE Head(s) + SeqSum(Tail(s))

RECURSIVE Flatten(_)
Flatten(ss) == IF ss = <<>> THEN <<>> ELSE Head(ss) \o Flatten(Tail(ss))

Abs(x) == IF x < 0 THEN -x ELSE x

RECURSIVE GCD(_, _)
GCD(a, b) == IF b = 0 THEN a ELSE GCD(b, a % b)

Ceil(num, den) == (num + den - 1) \div den

\* -------------------------------------------------------- the input data
\* The transactions the Cypher query returns and prevTxFeatures completes:
\* each client (fromId) sends one amount, so the window minimum, mean and
\* maximum of a row all equal its txAmount.
Transactions ==
    { [fromId |-> 1, txType |-> "CASH_IN",  txAmount |-> 1, fraudulentTx |-> FALSE,
       toId |-> 10, previousTxType |-> NaN],
      [fromId |-> 2, txType |-> "CASH_OUT", txAmount |-> 3, fraudulentTx |-> TRUE,
       toId |-> 11, previousTxType |-> "CASH_IN"],
      [fromId |-> 7, txType |-> "TRANSFER", txAmount |-> 2, fraudulentTx |-> FALSE,
       toId |-> 10, previousTxType |-> "CASH_OUT"] }

\* the query returns its rows ORDER BY id(c), txOrder
QueryResults ==
    UNION { {ts \in [1..n -> Transactions] :
               \A i, j \in 1..n : i < j => ts[i].fromId <= ts[j].fromId} :
            n \in 1..MaxRows }

\* row i of the query result, with the three window columns and data_chunk
DataRow(t, i) ==
    [idx |-> i,
     val |-> [c \in Range(DataColumns) |->
                CASE c = "fromId" -> t.fromId
                  [] c = "txType" -> t.txType
                  [] c = "txAmount" -> t.txAmount
                  [] c = "txOrder" -> i
                  [] c = "fraudulentTx" -> t.fraudulentTx
                  [] c = "toId" -> t.toId
                  [] c = "previousTxType" -> t.previousTxType
                  [] c = "data_chunk" -> t.fromId % (CpuCount * 3)
                  [] OTHER -> t.txAmount]]

\* applyParallel(data.groupby('data_chunk'), groupApply): the chunks one
\* after the other in chunk order, each keeping its rows' order and index
DataFrame(ts) ==
    LET rows == [i \in 1..Len(ts) |-> DataRow(ts[i], i - 1)]
    IN  [columns |-> DataColumns,
         rows |-> Flatten([k \in 1..(CpuCount * 3) |->
                             SelectSeq(rows, LAMBDA r : r.val["data_chunk"] = k - 1)])]

InputFrames == { DataFrame(ts) : ts \in QueryResults }

\* a transaction whose target node carries none of the labels the score
\* query returns, so that its toId has no row in graphFeatures
UnscoredTarget ==
    [fromId |-> 8, txType |-> "TRANSFER", txAmount |-> 2, fraudulentTx |-> FALSE,
     toId |-> 12, previousTxType |-> NaN]

MergeFrames ==
    { DataFrame(ts) :
        ts \in UNION { {ts \in [1..n -> Transactions \cup {UnscoredTarget}] :
                          \A i, j \in 1..n : i < j => ts[i].fromId <= ts[j].fromId} :
                       n \in 1..MaxRows } }

\* the number that stands for a missing txAmount (t.amount is null, the
\* float column holds NaN): no transaction has this amount
NoAmount == -1

\* a transaction whose amount is missing; its window columns are missing
\* with it
MissingAmount ==
    [fromId |-> 5, txType |-> "CASH_OUT", txAmount |-> NoAmount, fraudulentTx |-> FALSE,
     toId |-> 11, previousTxType |-> "CASH_IN"]

MissingFrames ==
    { DataFrame(ts) :
        ts \in UNION { {ts \in [1..n -> Transactions \cup {MissingAmount}] :
                          \A i, j \in 1..n : i < j => ts[i].fromId <= ts[j].fromId} :
                       n \in 1..MaxRows } }

\* the scores the graph algorithms wrote, one row per node id
graphFeatures ==
    [columns |-> GraphColumns,
     rows |-> << [idx |-> 0, val |-> [id |-> 10, pageRank |-> 1, betweenness |-> 0,
                                     triangleCount |-> 2, closeness |-> 1]],
                 [idx |-> 1, val |-> [id |-> 11, pageRank |-> 3, betweenness |-> 2,
                                     triangleCount |-> 0, closeness |-> 1]] >>]

\* ------------------------------------------------------ frame operations
shape0(df) == Len(df.rows)

\* DataFrame.drop(labels, axis=1): a new frame without the named columns
drop(df, labels) ==
    [columns |-> SelectSeq(df.columns, LAMBDA c : c \notin labels),
     rows |-> [i \in 1..Len(df.rows) |->
                 [idx |-> df.rows[i].idx,
                  val |-> [c \in (DOMAIN df.rows[i].val) \ labels |-> df.rows[i].val[c]]]]]

\* variant: the fill lands on a temporary copy of the column and is lost
fillna_on_copy(df, col, value) == df

\* Series.fillna(value, inplace=True) on column col of df
fillna(df, col, value) ==
    [columns |-> df.columns,
     rows |-> [i \in 1..Len(df.rows) |->
                 [idx |-> df.rows[i].idx,
                  val |-> [c \in DOMAIN df.rows[i].val |->
                             IF c = col /\ df.rows[i].val[c] = NaN
                             THEN value ELSE df.rows[i].val[c]]]]]

\* df[col].copy(): the column as a series of [idx, val]
column(df, col) ==
    [i \in 1..Len(df.rows) |-> [idx |-> df.rows[i].idx, val |-> df.rows[i].val[col]]]

\* positional row selection (DataFrame.iloc[positions])
take(df, positions) ==
    [columns |-> df.columns,
     rows |-> [i \in 1..Len(positions) |-> df.rows[positions[i] + 1]]]

\* ------------------------------------------------------ train_test_split
\* variant: no seed is passed, the shuffle follows the global generator,
\* whose position moves with every Datasets built before
permutation_unseeded(seed, n) ==
    LET c == Cardinality({m \in DatasetNames : datasets[m] # None})
    IN  [i \in 1..n |-> (i - 1 + c) % n]

\* RandomState(42).permutation(n): MT19937 seeded with 42, Fisher-Yates
\* shuffle of arange(n) from the last position down
permutation(seed, n) ==
    CASE n = 1 -> <<0>>
      [] n = 2 -> <<1, 0>>
      [] n = 3 -> <<0, 1, 2>>
      [] n = 4 -> <<1, 3, 0, 2>>
      [] n = 5 -> <<1, 4, 2, 0, 3>>
      [] n = 6 -> <<0, 1, 5, 2, 4, 3>>
      [] n = 7 -> <<0, 1, 5, 2, 4, 3, 6>>
      [] n = 8 -> <<1, 5, 0, 7, 2, 4, 3, 6>>
      [] n = 9 -> <<7, 1, 5, 0, 8, 2, 4, 3, 6>>
      [] n = 10 -> <<8, 1, 5, 0, 7, 2, 9, 4, 3, 6>>
      [] n = 11 -> <<5, 0, 9, 10, 2, 1, 8, 4, 7, 3, 6>>
      [] n = 25 -> <<8, 16, 0, 23, 11, 9, 13, 1, 22, 5, 2, 12, 15, 3, 4, 20, 17, 21,
                     18, 24, 7, 10, 14, 19, 6>>
      [] n = 26 -> <<8, 16, 0, 24, 11, 9, 13, 1, 23, 5, 2, 12, 15, 3, 4, 21, 17, 22,
                     18, 25, 20, 7, 10, 14, 19, 6>>

\* _validate_shuffle_split: n_test = ceil(test_size * n), n_train the rest
n_test(n, test_size) == Ceil(test_size[1] * n, test_size[2])
n_train(n, test_size) == n - n_test(n, test_size)

\* the split raises ValueError when the train set would be empty
split_fails(df, test_size) == n_train(shape0(df), test_size) = 0

\* variant: the train slice starts one position early
train_test_split_overlap(df, test_size, random_state) ==
    LET n == shape0(df)
        p == permutation(random_state, n)
        k == n_test(n, test_size)
    IN  <<take(df, SubSeq(p, k, n)), take(df, SubSeq(p, 1, k))>>

\* variant: the rows are ordered by their label before the cut, fraudulent
\* first, as in a split that looks at the label column
train_test_split_by_label(df, test_size, random_state) ==
    LET n == shape0(df)
        pos == [i \in 1..n |-> i - 1]
        p == SelectSeq(pos, LAMBDA q : df.rows[q + 1].val[LabelColumn]) \o
             SelectSeq(pos, LAMBDA q : ~df.rows[q + 1].val[LabelColumn])
        k == n_test(n, test_size)
    IN  <<take(df, SubSeq(p, k + 1, n)), take(df, SubSeq(p, 1, k))>>

train_test_split(df, test_size, random_state) ==
    LET n == shape0(df)
        p == permutation(random_state, n)
        k == n_test(n, test_size)
    IN  <<take(df, SubSeq(p, k + 1, n)), take(df, SubSeq(p, 1, k))>>

\* ------------------------------------------------------ Datasets.__init__
\* variant: the labels are cut from the unshuffled record set
Datasets_labels_before_split(df, test_size) ==
    LET d == fillna(drop(df, DroppedColumns), "previousTxType", First)
        s == train_test_split(d, test_size, RandomState)
        y == column(d, LabelColumn)
    IN  [original_data |-> df,
         data |-> d,
         train_set |-> s[1],
         test_set |-> s[2],
         X_Train_DF |-> drop(s[1], {LabelColumn}),
         Y_Train |-> SubSeq(y, 1, Len(s[1].rows)),
         X_Test_DF |-> drop(s[2], {LabelColumn}),
         Y_Test |-> SubSeq(y, Len(s[1].rows) + 1, Len(y))]

\* variant: the fill reaches the frame the constructor was handed
Datasets_fills_input(df, test_size) ==
    LET d == fillna(drop(df, DroppedColumns), "previousTxType", First)
        s == train_test_split(d, test_size, RandomState)
    IN  [original_data |-> fillna(df, "previousTxType", First),
         data |-> d,
         train_set |-> s[1],
         test_set |-> s[2],
         X_Train_DF |-> drop(s[1], {LabelColumn}),
         Y_Train |-> column(s[1], LabelColumn),
         X_Test_DF |-> drop(s[2], {LabelColumn}),
         Y_Test |-> column(s[2], LabelColumn)]

Datasets(df, test_size) ==
    LET d == fillna(drop(df, DroppedColumns), "previousTxType", First)
        s == train_test_split(d, test_size, RandomState)
    IN  [original_data |-> df,
         data |-> d,
         train_set |-> s[1],
         test_set |-> s[2],
         X_Train_DF |-> drop(s[1], {LabelColumn}),
         Y_Train |-> column(s[1], LabelColumn),
         X_Test_DF |-> drop(s[2], {LabelColumn}),
         Y_Test |-> column(s[2], LabelColumn)]

\* `name = Datasets(df, test_size)`: the name is bound only when the
\* constructor returns
Construct(name, df, test_size) ==
    /\ IF split_fails(df, test_size)
       THEN /\ lastError' = "ValueError"
            /\ UNCHANGED <<datasets, test_size_arg>>
       ELSE /\ lastError' = NoError
            /\ datasets' = [datasets EXCEPT ![name] = Some(Datasets(df, test_size))]
            /\ test_size_arg' = [test_size_arg EXCEPT ![name] = test_size]
    /\ UNCHANGED <<data, allFeatures, pipeline, X_Prepared, X_Test_Prepared, X_Transformed>>


\* ml_data = Datasets(data), the held-out fraction left at its default
ConstructMlData == Construct("ml_data", data, DefaultTestSize)

\* ---------------------------------------------------------------- merge
\* the distinct values of a key column, in order of first appearance
RECURSIVE first_seen(_, _)
first_seen(keys, seen) ==
    IF keys = <<>> THEN <<>>
    ELSE IF Head(keys) \in seen THEN first_seen(Tail(keys), seen)
         ELSE <<Head(keys)>> \o first_seen(Tail(keys), seen \cup {Head(keys)})

\* variant: the join pairs every left row with every right row, whatever
\* their keys
merge_all_pairs(left, right, l, r) ==
    LET joined(a, b) == [c \in Range(left.columns) \cup Range(right.columns) |->
                           IF c \in Range(left.columns) THEN a.val[c] ELSE b.val[c]]
        vals == Flatten([i \in 1..Len(left.rows) |->
                           [j \in 1..Len(right.rows) |->
                              joined(left.rows[i], right.rows[j])]])
    IN  [columns |-> left.columns \o right.columns,
         rows |-> [i \in 1..Len(vals) |-> [idx |-> i - 1, val |-> vals[i]]]]

\* left.merge(right, left_on=l, right_on=r, how='inner'): the hash join
\* walks the key groups in order of first appearance on the left and pairs,
\* within a group, every left row with every right row; the result gets a
\* fresh 0..m-1 index
merge(left, right, l, r) ==
    LET keys == first_seen([i \in 1..Len(left.rows) |-> left.rows[i].val[l]], {})
        joined(a, b) == [c \in Range(left.columns) \cup Range(right.columns) |->
                           IF c \in Range(left.columns) THEN a.val[c] ELSE b.val[c]]
        pairs_of(k) ==
            LET ls == SelectSeq(left.rows, LAMBDA a : a.val[l] = k)
                rs == SelectSeq(right.rows, LAMBDA b : b.val[r] = k)
            IN  Flatten([i \in 1..Len(ls) |->
                           [j \in 1..Len(rs) |-> joined(ls[i], rs[j])]])
        vals == Flatten([g \in 1..Len(keys) |-> pairs_of(keys[g])])
    IN  [columns |-> left.columns \o right.columns,
         rows |-> [i \in 1..Len(vals) |-> [idx |-> i - 1, val |-> vals[i]]]]

\* allFeatures = ml_data.original_data.merge(graphFeatures, ...)
MergeGraphFeatures ==
    /\ datasets["ml_data"] # None
    /\ allFeatures' = Some(merge(datasets["ml_data"][1].original_data,
                                 graphFeatures, "toId", "id"))
    /\ lastError' = NoError
    /\ UNCHANGED <<data, datasets, test_size_arg, pipeline,
                   X_Prepared, X_Test_Prepared, X_Transformed>>

\* graph_ml_data = Datasets(allFeatures.drop('id',axis=1))
ConstructGraphMlData ==
    /\ allFeatures # None
    /\ Construct("graph_ml_data", drop(allFeatures[1], {"id"}), DefaultTestSize)

\* ------------------------------------------------------- exact arithmetic
\* the real sgn * sqrt(num/den), in lowest terms
Real(sgn, num, den) ==
    IF num = 0 THEN [sgn |-> 0, num |-> 0, den |-> 1]
    ELSE [sgn |-> sgn, num |-> num \div GCD(num, den), den |-> den \div GCD(num, den)]

Sign(x) == IF x > 0 THEN 1 ELSE IF x < 0 THEN -1 ELSE 0

\* an integer cell as a real (np.hstack promotes the 0/1 block to float)
AsReal(x) == Real(Sign(x), x * x, 1)

\* the fraction num/den (den > 0) in lowest terms
Frac(num, den) ==
    LET g == GCD(Abs(num), den)
    IN  IF num = 0 THEN <<0, 1>> ELSE <<num \div g, den \div g>>

Width(M) == IF M = <<>> THEN 0 ELSE Len(M[1])

\* ------------------------------------------------------ AttributeSelector
dtype(df, c) == IF c \in ObjectColumns THEN "object" ELSE "number"

\* variant: the quantitative mode excludes nothing
select_dtypes_excluding_nothing(X, quantitative) ==
    SelectSeq(X.columns, LAMBDA c : quantitative \/ dtype(X, c) = "object")

\* X.select_dtypes(exclude / include = ['object','category']).columns
select_dtypes(X, quantitative) ==
    SelectSeq(X.columns, LAMBDA c : (dtype(X, c) # "object") = quantitative)

\* X[attribute_names].values
values(X, attribute_names) ==
    [i \in 1..Len(X.rows) |->
       [j \in 1..Len(attribute_names) |-> X.rows[i].val[attribute_names[j]]]]

\* ---------------------------------------------------------- StandardScaler
\* fit: per column the mean and the population variance of the fit data
scaler_mean(M) ==
    [j \in 1..Width(M) |-> Frac(SeqSum([i \in 1..Len(M) |-> M[i][j]]), Len(M))]

scaler_var(M) ==
    [j \in 1..Width(M) |->
       LET s == SeqSum([i \in 1..Len(M) |-> M[i][j]])
           q == SeqSum([i \in 1..Len(M) |-> M[i][j] * M[i][j]])
       IN  Frac(Len(M) * q - s * s, Len(M) * Len(M))]

\* (x - mean_) / scale_, scale_ = sqrt(var_) and 1 where var_ is 0
standardize(x, mean, var) ==
    LET d == x * mean[2] - mean[1]
    IN  IF var[1] = 0
        THEN Real(Sign(d), d * d, mean[2] * mean[2])
        ELSE Real(Sign(d), d * d * var[2], mean[2] * mean[2] * var[1])

scaler_transform(M, mean_, var_) ==
    [i \in 1..Len(M) |-> [j \in 1..Width(M) |-> standardize(M[i][j], mean_[j], var_[j])]]

\* ------------------------------------------------------- MyLabelBinarizer
\* np.unique(x[:,col]): the distinct values, sorted
unique(y) == SelectSeq(SortedValues, LAMBDA v : v \in Range(y))

\* sklearn's label_binarize(y, classes=np.unique(y)): a target with one
\* class gives one column of zeros, with two classes one column marking
\* the second class, with more one column per class
label_binarize(y, classes) ==
    [i \in 1..Len(y) |->
       IF Len(classes) = 1 THEN <<0>>
       ELSE IF Len(classes) = 2 THEN <<IF y[i] = classes[2] THEN 1 ELSE 0>>
       ELSE [k \in 1..Len(classes) |-> IF y[i] = classes[k] THEN 1 ELSE 0]]

\* np.hstack of equally tall blocks
hstack(blocks, n) == [i \in 1..n |-> Flatten([b \in 1..Len(blocks) |-> blocks[b][i]])]

MyLabelBinarizer_transform(x) ==
    hstack([col \in 1..Width(x) |->
              LET y == [i \in 1..Len(x) |-> x[i][col]]
              IN  label_binarize(y, unique(y))],
           Len(x))

to_float(M) == [i \in 1..Len(M) |-> [j \in 1..Len(M[i]) |-> AsReal(M[i][j])]]

\* ----------------------------------------------------- data_prep_pipeline
\* quant_pipeline.fit_transform(X): selector, then the scaler fitted on it
quant_fit_transform(X) ==
    LET M == values(X, select_dtypes(X, TRUE))
    IN  scaler_transform(M, scaler_mean(M), scaler_var(M))

\* qual_pipeline.fit_transform(X) and qual_pipeline.transform(X)
qual_transform(X) ==
    to_float(MyLabelBinarizer_transform(values(X, select_dtypes(X, FALSE))))

\* variant: the union lists the qualitative branch first
fit_transform_qual_first(X) ==
    hstack(<<qual_transform(X), quant_fit_transform(X)>>, shape0(X))

\* FeatureUnion.fit_transform(X): both branches side by side
fit_transform(X) ==
    hstack(<<quant_fit_transform(X), qual_transform(X)>>, shape0(X))

\* the pipeline after fit_transform(X); fit_src and fit_out remember the
\* record set of the last fit and the matrix that call returned
fitted(X) ==
    LET M == values(X, select_dtypes(X, TRUE))
    IN  [quant_names |-> Some(select_dtypes(X, TRUE)),
         qual_names |-> Some(select_dtypes(X, FALSE)),
         mean_ |-> Some(scaler_mean(M)),
         var_ |-> Some(scaler_var(M)),
         fit_src |-> Some(X),
         fit_out |-> Some(fit_transform(X))]

\* variant: the quantitative block is passed on without the scaler
transform_unscaled(p, X) ==
    hstack(<<to_float(values(X, select_dtypes(X, TRUE))), qual_transform(X)>>, shape0(X))

\* FeatureUnion.transform(X) on a fitted scaler of the right width
transform(p, X) ==
    hstack(<<scaler_transform(values(X, select_dtypes(X, TRUE)), p.mean_[1], p.var_[1]),
             qual_transform(X)>>, shape0(X))

\* the outcome of the scaler's checks in transform
transform_error(p, X) ==
    IF p.mean_ = None THEN "NotFittedError"
    ELSE IF Len(p.mean_[1]) # Len(select_dtypes(X, TRUE)) THEN "ValueError"
    ELSE NoError

\* the feature frames of the constructed Datasets
Frames ==
    UNION { {datasets[n][1].X_Train_DF, datasets[n][1].X_Test_DF} :
            n \in {m \in DatasetNames : datasets[m] # None} }

\* X_Prepared = data_prep_pipeline.fit_transform(<name>.X_Train_DF)
PrepareTrain(name) ==
    /\ datasets[name] # None
    /\ pipeline' = fitted(datasets[name][1].X_Train_DF)
    /\ X_Prepared' = Some([src |-> datasets[name][1].X_Train_DF,
                           out |-> pipeline'.fit_out[1]])
    /\ lastError' = NoError
    /\ UNCHANGED <<data, allFeatures, datasets, test_size_arg,
                   X_Test_Prepared, X_Transformed>>

\* X_Test_Prepared = data_prep_pipeline.fit_transform(graph_ml_data.X_Test_DF)
PrepareTest ==
    /\ datasets["graph_ml_data"] # None
    /\ pipeline' = fitted(datasets["graph_ml_data"][1].X_Test_DF)
    /\ X_Test_Prepared' = Some([src |-> datasets["graph_ml_data"][1].X_Test_DF,
                                out |-> pipeline'.fit_out[1]])
    /\ lastError' = NoError
    /\ UNCHANGED <<data, allFeatures, datasets, test_size_arg,
                   X_Prepared, X_Transformed>>

\* variant: a pipeline that was never fitted fits itself on X and returns
\* the matrix of that fit
PipelineTransform_fits_itself(X) ==
    /\ X \in Frames
    /\ IF pipeline.mean_ = None
       THEN /\ pipeline' = fitted(X)
            /\ X_Transformed' = Some([src |-> X, out |-> pipeline'.fit_out[1]])
            /\ lastError' = NoError
       ELSE /\ lastError' = transform_error(pipeline, X)
            /\ IF transform_error(pipeline, X) # NoError
               THEN /\ pipeline' = [pipeline EXCEPT
                                      !.quant_names = Some(select_dtypes(X, TRUE))]
                    /\ UNCHANGED X_Transformed
               ELSE /\ pipeline' = [pipeline EXCEPT
                                      !.quant_names = Some(select_dtypes(X, TRUE)),
                                      !.qual_names = Some(select_dtypes(X, FALSE))]
                    /\ X_Transformed' = Some([src |-> X, out |-> transform(pipeline, X)])
    /\ UNCHANGED <<data, allFeatures, datasets, test_size_arg,
                   X_Prepared, X_Test_Prepared>>

\* data_prep_pipeline.transform(X): the quantitative selector runs first
\* and stores its column list, then the scaler checks that it was fitted
\* and on as many columns; only then does the qualitative branch run
PipelineTransform(X) ==
    /\ X \in Frames
    /\ lastError' = transform_error(pipeline, X)
    /\ IF transform_error(pipeline, X) # NoError
       THEN /\ pipeline' = [pipeline EXCEPT !.quant_names = Some(select_dtypes(X, TRUE))]
            /\ UNCHANGED X_Transformed
       ELSE /\ pipeline' = [pipeline EXCEPT !.quant_names = Some(select_dtypes(X, TRUE)),
                                            !.qual_names = Some(select_dtypes(X, FALSE))]
            /\ X_Transformed' = Some([src |-> X, out |-> transform(pipeline, X)])
    /\ UNCHANGED <<data, allFeatures, datasets, test_size_arg,
                   X_Prepared, X_Test_Prepared>>

\* the first step of each branch of the union on X: the quantitative
\* selector's transform, then the qualitative selector's; each stores its
\* attribute_names and returns X[attribute_names].values, kept here side
\* by side
SelectorsTransform(X) ==
    /\ pipeline' = [pipeline EXCEPT !.quant_names = Some(select_dtypes(X, TRUE)),
                                    !.qual_names = Some(select_dtypes(X, FALSE))]
    /\ X_Transformed' = Some([src |-> X,
                              out |-> hstack(<<values(X, select_dtypes(X, TRUE)),
                                               values(X, select_dtypes(X, FALSE))>>,
                                             shape0(X))])
    /\ lastError' = NoError
    /\ UNCHANGED <<data, allFeatures, datasets, test_size_arg,
                   X_Prepared, X_Test_Prepared>>

\* --------------------------------------------------------- window features
\* the clients and the amounts of the transactions the query may return
Clients == {1, 2, 7}
Amounts == {1, 3}

\* graph.data: row i is a transaction of client from[i] of amount amt[i],
\* under the index 0..n-1 the Database class gives its frame; data.assign
\* adds the three window columns holding 0.0 and line 322 adds data_chunk
QueryFrame(from, amt) ==
    [columns |-> DataColumns,
     rows |-> [i \in 1..Len(from) |->
                 [idx |-> i - 1,
                  val |-> [c \in Range(DataColumns) |->
                             CASE c = "fromId" -> from[i]
                               [] c = "txType" -> "CASH_OUT"
                               [] c = "txAmount" -> amt[i]
                               [] c = "txOrder" -> i
                               [] c = "fraudulentTx" -> FALSE
                               [] c = "toId" -> 10
                               [] c = "previousTxType" -> NaN
                               [] c = "data_chunk" -> from[i] % (CpuCount * 3)
                               [] OTHER -> <<0, 1>>]]]]

\* the client columns of n rows that are in the query's order, ORDER BY
\* id(c), txOrder
OrderedClients(n) ==
    {f \in [1..n -> Clients] : \A i \in 1..(n - 1) : f[i] <= f[i + 1]}

\* the least and the greatest of a non-empty sequence of numbers
SeqMin(s) == CHOOSE x \in Range(s) : \A y \in Range(s) : x <= y
SeqMax(s) == CHOOSE x \in Range(s) : \A y \in Range(s) : x >= y

\* data.iloc[:i+1,2].tail(lastK), i counted from 0: the amounts of the
\* rows up to and including row i, the last lastK of them
tail_to_row(rows, i, lastK) ==
    LET first == IF i + 1 > lastK THEN i + 1 - lastK + 1 ELSE 1
    IN  [k \in 1..(i + 1 - first + 1) |-> rows[first + k - 1].val[DataColumns[3]]]

\* prevTxFeatures(data, lastK=7) on the rows of one client: columns 7, 8
\* and 9 of row i get the minimum, the mean and the maximum of the window
prevTxFeatures(rows, lastK) ==
    [r \in 1..Len(rows) |->
       LET w == tail_to_row(rows, r - 1, lastK)
       IN  [idx |-> rows[r].idx,
            val |-> [c \in DOMAIN rows[r].val |->
                       CASE c = DataColumns[8] -> Frac(SeqMin(w), 1)
                         [] c = DataColumns[9] -> Frac(SeqSum(w), Len(w))
                         [] c = DataColumns[10] -> Frac(SeqMax(w), 1)
                         [] OTHER -> rows[r].val[c]]]]

\* the keys of a group-by, sorted
RECURSIVE sorted_keys(_)
sorted_keys(S) ==
    IF S = {} THEN <<>>
    ELSE LET m == CHOOSE x \in S : \A y \in S : x <= y
         IN  <<m>> \o sorted_keys(S \ {m})

\* variant: the windows are taken over the rows of the whole chunk
groupApply_whole_chunk(rows) == prevTxFeatures(rows, 7)

\* groupApply(df): df.groupby('fromId').apply(prevTxFeatures), the
\* clients in key order, each with its rows in their order
groupApply(rows) ==
    LET keys == sorted_keys({rows[i].val["fromId"] : i \in 1..Len(rows)})
    IN  Flatten([g \in 1..Len(keys) |->
                   prevTxFeatures(SelectSeq(rows, LAMBDA r : r.val["fromId"] = keys[g]), 7)])

\* applyParallel(data.groupby('data_chunk'), groupApply): p.map keeps the
\* order of the chunks, pd.concat puts the results one after the other
applyParallel(df) ==
    LET keys == sorted_keys({df.rows[i].val["data_chunk"] : i \in 1..Len(df.rows)})
    IN  [columns |-> df.columns,
         rows |-> Flatten([g \in 1..Len(keys) |->
                             groupApply(SelectSeq(df.rows,
                                                  LAMBDA r : r.val["data_chunk"] = keys[g]))])]

\* the cell of lines 319-324: data = applyParallel(...)
ComputeWindowFeatures ==
    /\ graph_data # None
    /\ featured' = Some(applyParallel(graph_data[1]))
    /\ UNCHANGED graph_data

\* ----------------------------------------------------------------- scores
\* how many entries of the label vector y are v and predicted as w
count(y, p, v, w) == Cardinality({i \in 1..Len(y) : y[i] = v /\ p[i] = w})

\* the labels that occur in y or in p, sorted (False before True)
unique_labels(y, p) ==
    SelectSeq(<<FALSE, TRUE>>, LAMBDA v : v \in Range(y) \cup Range(p))

\* sklearn's confusion_matrix(y_true, y_pred): one row per occurring true
\* label and one column per occurring predicted label, in sorted order
confusion_matrix(y, p) ==
    LET labels == unique_labels(y, p)
    IN  [i \in 1..Len(labels) |->
           [j \in 1..Len(labels) |-> count(y, p, labels[i], labels[j])]]

\* variant: the true positives over the actual positives
precision_score_over_actual(y, p) ==
    IF count(y, p, TRUE, TRUE) + count(y, p, TRUE, FALSE) = 0 THEN <<0, 1>>
    ELSE Frac(count(y, p, TRUE, TRUE),
              count(y, p, TRUE, TRUE) + count(y, p, TRUE, FALSE))

\* precision_score: TP / (TP + FP), and 0.0 with a warning when nothing is
\* predicted positive
precision_score(y, p) ==
    IF count(y, p, TRUE, TRUE) + count(y, p, FALSE, TRUE) = 0 THEN <<0, 1>>
    ELSE Frac(count(y, p, TRUE, TRUE),
              count(y, p, TRUE, TRUE) + count(y, p, FALSE, TRUE))

\* variant: the recall of the negative class
recall_score_of_negatives(y, p) ==
    IF count(y, p, FALSE, FALSE) + count(y, p, FALSE, TRUE) = 0 THEN <<0, 1>>
    ELSE Frac(count(y, p, FALSE, FALSE),
              count(y, p, FALSE, FALSE) + count(y, p, FALSE, TRUE))

\* recall_score: TP / (TP + FN), and 0.0 with a warning when no label is
\* positive
recall_score(y, p) ==
    IF count(y, p, TRUE, TRUE) + count(y, p, TRUE, FALSE) = 0 THEN <<0, 1>>
    ELSE Frac(count(y, p, TRUE, TRUE),
              count(y, p, TRUE, TRUE) + count(y, p, TRUE, FALSE))

\* f1_score: 2 TP / (2 TP + FP + FN), 0.0 when that is 0 / 0
f1_score(y, p) ==
    LET den == 2 * count(y, p, TRUE, TRUE) + count(y, p, FALSE, TRUE)
                   + count(y, p, TRUE, FALSE)
    IN  IF den = 0 THEN <<0, 1>> ELSE Frac(2 * count(y, p, TRUE, TRUE), den)

\* roc_auc_score of a hard labelling: the mean of the two class recalls;
\* it raises ValueError when y holds one class only (None here)
roc_auc_score(y, p) ==
    LET pos == count(y, p, TRUE, TRUE) + count(y, p, TRUE, FALSE)
        neg == count(y, p, FALSE, FALSE) + count(y, p, FALSE, TRUE)
    IN  IF pos = 0 \/ neg = 0 THEN None
        ELSE Some(Frac(count(y, p, TRUE, TRUE) * neg + count(y, p, FALSE, FALSE) * pos,
                       2 * pos * neg))

\* scoring="accuracy": the share of the entries predicted as labelled
accuracy_score(y, p) ==
    Frac(count(y, p, TRUE, TRUE) + count(y, p, FALSE, FALSE), Len(y))

\* the label vectors: every one of up to MaxLabels entries, and the ones
\* of a hundred entries of which one is positive
LabelVectors ==
    UNION { [1..n -> BOOLEAN] : n \in 1..MaxLabels }
      \cup { [i \in 1..100 |-> i = k] : k \in 1..100 }

\* the labellings a classifier may predict for y: any of them for a short
\* y; for a long one all negative, all positive, y itself and its opposite
Predictions(y) ==
    IF Len(y) <= MaxLabels THEN [1..Len(y) -> BOOLEAN]
    ELSE { [i \in 1..Len(y) |-> FALSE], [i \in 1..Len(y) |-> TRUE],
           y, [i \in 1..Len(y) |-> ~y[i]] }

\* the confusion matrix and the scores of the labelling p of y_true
Score(p) ==
    /\ y_true # None
    /\ p \in Predictions(y_true[1])
    /\ scored' = Some([predictions |-> p,
                       conf_matrix |-> confusion_matrix(y_true[1], p),
                       accuracy |-> accuracy_score(y_true[1], p),
                       precision |-> precision_score(y_true[1], p),
                       recall |-> recall_score(y_true[1], p),
                       f1 |-> f1_score(y_true[1], p),
                       roc_auc |-> roc_auc_score(y_true[1], p)])
    /\ UNCHANGED y_true

\* ----------------------------------------------------- evaluation harness
MatrixNames == {"ml_conf_matrix", "graph_ml_conf_matrix"}
MeasureNames == {"performance_measures", "graph_performance_measures",
                 "test_performance_measures"}

\* cv=5
Folds == 5

\* the values of a label series
labels(Y) == [i \in 1..Len(Y) |-> Y[i].val]

members(y, v) == Cardinality({i \in 1..Len(y) : y[i] = v})

\* the preparation names as a cell that sets lastError leaves them
prepState == <<data, allFeatures, datasets, test_size_arg, pipeline,
               X_Prepared, X_Test_Prepared, X_Transformed>>

\* SGDClassifier(random_state=42, penalty=...): a new estimator, without
\* coefficients; evaluated records that a cross-validated prediction was
\* made with this estimator in its present state
SGDClassifier(penalty) ==
    [penalty |-> penalty, fitted |-> FALSE, n_features |-> 0, evaluated |-> FALSE]

\* fit(X, y) raises ValueError when X and y differ in length or y holds
\* fewer than two classes
fit_error(X, y) ==
    IF Len(X) # Len(y) \/ Cardinality(Range(y)) < 2 THEN "ValueError" ELSE NoError

\* variant: fit returns without learning anything
SGDClassifier_fit_skipped(clf, X, y) == clf

\* the estimator after fit(X, y): what it held is replaced by one
\* coefficient per column of X; after a failed fit it holds no usable
\* coefficients
SGDClassifier_fit(clf, X, y) ==
    IF fit_error(X, y) # NoError
    THEN [clf EXCEPT !.fitted = FALSE, !.n_features = 0, !.evaluated = FALSE]
    ELSE [clf EXCEPT !.fitted = TRUE, !.n_features = Width(X), !.evaluated = FALSE]

\* StratifiedKFold(5).split raises ValueError when there are fewer samples
\* than folds or no class has as many members as folds
split_error(X, y) ==
    \/ Len(X) # Len(y)
    \/ Len(y) < Folds
    \/ \A v \in Range(y) : members(y, v) < Folds

\* a class with a single member is absent from the training part of the
\* fold that tests it, and y may hold one class only: the clone's fit
\* raises there
fold_fit_error(y) ==
    \/ Cardinality(Range(y)) < 2
    \/ \E v \in Range(y) : members(y, v) < 2

\* cross_val_predict lets every error through
cross_val_predict_error(X, y) ==
    IF split_error(X, y) \/ fold_fit_error(y) THEN "ValueError" ELSE NoError

\* cross_val_score raises on a split error; a failed fit of a fold raises
\* under error_score='raise' (the default of older releases) and scores
\* nan with a warning under error_score=nan
cross_val_score_errors(X, y) ==
    IF split_error(X, y) THEN {"ValueError"}
    ELSE IF fold_fit_error(y) THEN {"ValueError", NoError}
    ELSE {NoError}

\* sgd_clf = SGDClassifier(random_state=42, penalty=penalty)
NewClassifier(penalty) ==
    /\ sgd_clf' = Some(SGDClassifier(penalty))
    /\ lastError' = NoError
    /\ UNCHANGED <<prepState, predictions, conf_matrix, measures, all_features>>

\* sgd_clf.fit(X_Prepared, <name>.Y_Train)
Fit(name) ==
    /\ sgd_clf # None
    /\ X_Prepared # None
    /\ datasets[name] # None
    /\ sgd_clf' = Some(SGDClassifier_fit(sgd_clf[1], X_Prepared[1].out,
                                         labels(datasets[name][1].Y_Train)))
    /\ lastError' = fit_error(X_Prepared[1].out, labels(datasets[name][1].Y_Train))
    /\ UNCHANGED <<prepState, predictions, conf_matrix, measures, all_features>>

\* cross_val_score(sgd_clf, X_Prepared, <name>.Y_Train, cv=5,
\* scoring="accuracy"): clones of sgd_clf are fitted, the scores are shown
CrossValScore(name) ==
    /\ sgd_clf # None
    /\ X_Prepared # None
    /\ datasets[name] # None
    /\ lastError' \in cross_val_score_errors(X_Prepared[1].out,
                                              labels(datasets[name][1].Y_Train))
    /\ UNCHANGED <<prepState, sgd_clf, predictions, conf_matrix, measures, all_features>>

\* predictions = cross_val_predict(sgd_clf, X, y, cv=5): clones of sgd_clf
\* are fitted on the folds and predict the rest; which labelling comes out
\* is left open
CrossValPredict(X, y) ==
    /\ sgd_clf # None
    /\ lastError' = cross_val_predict_error(X, y)
    /\ IF cross_val_predict_error(X, y) # NoError
       THEN UNCHANGED <<sgd_clf, predictions>>
       ELSE /\ predictions' \in {Some(p) : p \in Predictions(y)}
            /\ sgd_clf' = Some([sgd_clf[1] EXCEPT !.evaluated = TRUE])
    /\ UNCHANGED <<prepState, conf_matrix, measures, all_features>>

\* <m> = confusion_matrix(<name>.Y_Train, predictions)
ConfusionMatrix(m, name) ==
    /\ predictions # None
    /\ datasets[name] # None
    /\ IF Len(predictions[1]) # Len(datasets[name][1].Y_Train)
       THEN /\ lastError' = "ValueError"
            /\ UNCHANGED conf_matrix
       ELSE /\ lastError' = NoError
            /\ conf_matrix' =
                  [conf_matrix EXCEPT ![m] =
                     Some(confusion_matrix(labels(datasets[name][1].Y_Train),
                                           predictions[1]))]
    /\ UNCHANGED <<prepState, sgd_clf, predictions, measures, all_features>>

\* <m> = {}; <m>['precision'] = ...; ...; <m>['roc_auc'] = ...: the
\* dictionary is bound and filled entry by entry, roc_auc_score raises
\* ValueError when y holds one class
Measures(m, y) ==
    /\ predictions # None
    /\ IF Len(predictions[1]) # Len(y)
       THEN /\ lastError' = "ValueError"
            /\ measures' = [measures EXCEPT ![m] =
                               Some([precision |-> None, recall |-> None,
                                     f1 |-> None, roc_auc |-> None])]
       ELSE /\ lastError' = IF roc_auc_score(y, predictions[1]) = None
                            THEN "ValueError" ELSE NoError
            /\ measures' = [measures EXCEPT ![m] =
                               Some([precision |-> Some(precision_score(y, predictions[1])),
                                     recall |-> Some(recall_score(y, predictions[1])),
                                     f1 |-> Some(f1_score(y, predictions[1])),
                                     roc_auc |-> roc_auc_score(y, predictions[1])])]
    /\ UNCHANGED <<prepState, sgd_clf, predictions, conf_matrix, all_features>>

\* the cell of lines 847-852: the quantitative selector's column list,
\* then per column of the qualitative selector's list one name per value
\* of graph_ml_data.data[col].unique(), the values in order of appearance
feature_names(p, d) ==
    p.quant_names[1] \o
    Flatten([c \in 1..Len(p.qual_names[1]) |->
               LET col == p.qual_names[1][c]
                   seen == first_seen([i \in 1..Len(d.rows) |-> d.rows[i].val[col]], {})
               IN  [k \in 1..Len(seen) |-> col \o "_" \o seen[k]]])

FeatureNames ==
    /\ datasets["graph_ml_data"] # None
    /\ IF pipeline.quant_names = None \/ pipeline.qual_names = None
       THEN /\ lastError' = "AttributeError"
            /\ UNCHANGED all_features
       ELSE /\ lastError' = NoError
            /\ all_features' = Some(feature_names(pipeline, datasets["graph_ml_data"][1].data))
    /\ UNCHANGED <<prepState, sgd_clf, predictions, conf_matrix, measures>>

\* sorted(zip(np.abs(sgd_clf.coef_[0]), all_features), reverse=True): an
\* estimator that was not fitted has no coef_
Coefficients ==
    /\ sgd_clf # None
    /\ all_features # None
    /\ lastError' = IF sgd_clf[1].fitted THEN NoError ELSE "AttributeError"
    /\ UNCHANGED <<prepState, sgd_clf, predictions, conf_matrix, measures, all_features>>

\* a preparation cell leaves the names of the evaluation cells alone
Prep(A) == A /\ UNCHANGED <<sgd_clf, predictions, conf_matrix, measures, all_features>>

\* the statement at line k of a run from top to bottom: it runs when the
\* run has come to it without an error, and the run goes on at line next
\* unless the statement raises
At(k, next, A) ==
    /\ pc = k
    /\ lastError = NoError
    /\ A
    /\ pc' = IF lastError' = NoError THEN next ELSE k
    /\ UNCHANGED <<rollVars, metricVars, poolVars, dbVars, shown>>

TrainLabels(name) == labels(datasets[name][1].Y_Train)

\* print(confusion_matrix(graph_ml_data.Y_Test,predictions)): the matrix
\* is printed, no name is bound
PrintConfusionMatrix ==
    /\ predictions # None
    /\ datasets["graph_ml_data"] # None
    /\ lastError' = IF Len(predictions[1]) # Len(datasets["graph_ml_data"][1].Y_Test)
                    THEN "ValueError" ELSE NoError
    /\ UNCHANGED <<prepState, sgd_clf, predictions, conf_matrix, measures, all_features>>

\* pd.Series(graph_performance_measures), the last expression of the
\* test-performance cell: its value is what the cell puts out
Display ==
    /\ pc = 920
    /\ lastError = NoError
    /\ measures["graph_performance_measures"] # None
    /\ shown' = measures["graph_performance_measures"]
    /\ pc' = 938
    /\ UNCHANGED <<prepVars, sgd_clf, predictions, conf_matrix, measures, all_features,
                   rollVars, metricVars, poolVars, dbVars>>

\* the code cells from line 348 on, in their order, up to the
\* cross-validated prediction on the test matrix (line 913)
NotebookNext ==
    \/ At(348, 469, Prep(ConstructMlData))
    \/ At(469, 493, Prep(PrepareTrain("ml_data")))
    \/ At(493, 494, NewClassifier("l2"))
    \/ At(494, 495, Fit("ml_data"))
    \/ At(495, 539, CrossValScore("ml_data"))
    \/ At(539, 540, CrossValPredict(X_Prepared[1].out, TrainLabels("ml_data")))
    \/ At(540, 579, ConfusionMatrix("ml_conf_matrix", "ml_data"))
    \/ At(579, 694, Measures("performance_measures", TrainLabels("ml_data")))
    \/ At(694, 719, Prep(MergeGraphFeatures))
    \/ At(719, 751, Prep(ConstructGraphMlData))
    \/ At(751, 752, Prep(PrepareTrain("graph_ml_data")))
    \/ At(752, 753, Fit("graph_ml_data"))
    \/ At(753, 776, CrossValScore("graph_ml_data"))
    \/ At(776, 777, CrossValPredict(X_Prepared[1].out, TrainLabels("graph_ml_data")))
    \/ At(777, 803, ConfusionMatrix("graph_ml_conf_matrix", "graph_ml_data"))
    \/ At(803, 847, Measures("graph_performance_measures", TrainLabels("graph_ml_data")))
    \/ At(847, 868, FeatureNames)
    \/ At(868, 884, Coefficients)
    \/ At(884, 885, NewClassifier("elasticnet"))
    \/ At(885, 886, Fit("graph_ml_data"))
    \/ At(886, 896, CrossValPredict(X_Prepared[1].out, TrainLabels("graph_ml_data")))
    \/ At(896, 912, Coefficients)
    \/ At(912, 913, Prep(PrepareTest))
    \/ At(913, 914, CrossValPredict(X_Test_Prepared[1].out,
                                     labels(datasets["graph_ml_data"][1].Y_Test)))

\* ------------------------------------------------------- the process pool
\* variant: the rows are dealt out by their position, whatever their client
chunks_by_position(df) ==
    LET keys == sorted_keys({df.rows[i].idx % (CpuCount * 3) : i \in 1..Len(df.rows)})
    IN  [g \in 1..Len(keys) |->
           SelectSeq(df.rows, LAMBDA r : r.idx % (CpuCount * 3) = keys[g])]

\* variant: the frame is cut in two halves
chunks_in_halves(df) ==
    LET n == Len(df.rows)
        h == (n + 1) \div 2
    IN  IF n = 1 THEN <<df.rows>>
        ELSE <<SubSeq(df.rows, 1, h), SubSeq(df.rows, h + 1, n)>>

\* [group for name, group in data.groupby('data_chunk')]: one group per
\* value of data_chunk, in key order, each with its rows in their order
chunks(df) ==
    LET keys == sorted_keys({df.rows[i].val["data_chunk"] : i \in 1..Len(df.rows)})
    IN  [g \in 1..Len(keys) |->
           SelectSeq(df.rows, LAMBDA r : r.val["data_chunk"] = keys[g])]

\* variant: a task whose function raised is put back in the queue
task_failed_requeued(st, k) == [st EXCEPT ![k] = "queued"]

\* the task of chunk k after its function raised in the worker: the error
\* is what the task sends back, and nothing runs the task again
task_failed(st, k) == [st EXCEPT ![k] = "failed"]

\* with Pool(cpu_count()) as p: p.map(func, [...]): the pool starts its
\* worker processes and queues one task per chunk (a list shorter than
\* 4 * cpu_count() is cut in tasks of one element), in the list's order
Dispatch ==
    /\ graph_data # None
    /\ chunk_list = None
    /\ lastError = NoError
    /\ chunk_list' = Some(chunks(graph_data[1]))
    /\ task' = [k \in 1..Len(chunks(graph_data[1])) |-> "queued"]
    /\ ret_list' = [k \in 1..Len(chunks(graph_data[1])) |-> None]
    /\ worker' = [w \in 1..CpuCount |-> 0]
    /\ UNCHANGED <<completed, graph_data, featured, lastError>>

\* an idle worker process takes the task at the head of the queue; it gets
\* its own pickled copy of the chunk
PickUp(w) ==
    /\ chunk_list # None
    /\ lastError = NoError
    /\ worker[w] = 0
    /\ \E k \in 1..Len(task) :
          /\ task[k] = "queued"
          /\ \A j \in 1..(k - 1) : task[j] # "queued"
          /\ task' = [task EXCEPT ![k] = "running"]
          /\ worker' = [worker EXCEPT ![w] = k]
    /\ UNCHANGED <<chunk_list, ret_list, completed, graph_data, featured, lastError>>

\* the worker's groupApply(chunk) returns and the result reaches p.map,
\* which keeps it at the position of the chunk
Complete(w) ==
    /\ worker[w] # 0
    /\ ret_list' = [ret_list EXCEPT
                       ![worker[w]] = Some(groupApply(chunk_list[1][worker[w]]))]
    /\ task' = [task EXCEPT ![worker[w]] = "done"]
    /\ completed' = Append(completed, worker[w])
    /\ worker' = [worker EXCEPT ![w] = 0]
    /\ UNCHANGED <<chunk_list, graph_data, featured, lastError>>

\* the worker's groupApply(chunk) raises: the worker sends the exception
\* back in place of a result and is idle again
Raise(w) ==
    /\ worker[w] # 0
    /\ task' = task_failed(task, worker[w])
    /\ completed' = Append(completed, worker[w])
    /\ worker' = [worker EXCEPT ![w] = 0]
    /\ UNCHANGED <<chunk_list, ret_list, graph_data, featured, lastError>>

\* every task sent its result: p.map returns the list, the with block
\* ends the pool and pd.concat(ret_list) is bound to data
Return ==
    /\ chunk_list # None
    /\ featured = None
    /\ lastError = NoError
    /\ \A k \in 1..Len(task) : task[k] = "done"
    /\ featured' = Some([columns |-> graph_data[1].columns,
                         rows |-> Flatten([k \in 1..Len(ret_list) |-> ret_list[k][1]])])
    /\ UNCHANGED <<chunk_list, task, worker, ret_list, completed, graph_data, lastError>>

\* a task sent an exception: p.map raises it without waiting for the
\* other tasks, the with block terminates the worker processes, and
\* applyParallel is left by the exception before pd.concat
Abort ==
    /\ chunk_list # None
    /\ lastError = NoError
    /\ \E k \in 1..Len(task) : task[k] = "failed"
    /\ lastError' = "Error"
    /\ worker' = [w \in 1..CpuCount |-> 0]
    /\ task' = [k \in 1..Len(task) |->
                  IF task[k] \in {"queued", "running"} THEN "dropped" ELSE task[k]]
    /\ UNCHANGED <<chunk_list, ret_list, completed, graph_data, featured>>

\* what the pool leaves alone
notPoolVars == <<prepState, metricVars, harnessVars, dbVars>>

PoolNext ==
    \/ Dispatch /\ UNCHANGED notPoolVars
    \/ \E w \in 1..CpuCount : PickUp(w) /\ UNCHANGED notPoolVars
    \/ \E w \in 1..CpuCount : Complete(w) /\ UNCHANGED notPoolVars
    \/ \E w \in 1..CpuCount : Raise(w) /\ UNCHANGED notPoolVars
    \/ Return /\ UNCHANGED notPoolVars
    \/ Abort /\ UNCHANGED notPoolVars

\* ------------------------------------------------------------- Database
\* the queries the notebook sends
Queries == {"cypherQuery", "pageRankQuery"}

\* the columns the window-feature cell adds to the query result
AddedColumns == {"min7PrevTxAmount", "mean7PrevTxAmount", "max7PrevTxAmount", "data_chunk"}

\* what results.values() gives once the session is closed: the driver of
\* the 1.x line buffers the records when the session closes, the 4.x line
\* discards them and a later one raises
AfterClose == {"buffered", "discarded", "raises"}

\* variant: the session is left open when the block is left by an error
exit_session_unless_raised(ss, raised) ==
    IF raised THEN ss ELSE [ss EXCEPT ![Len(ss)] = "closed"]

\* the end of `with self._driver.session() as session`: Session.__exit__
\* closes the session, however the block is left
exit_session(ss, raised) == [ss EXCEPT ![Len(ss)] = "closed"]

\* graph.getData(query) or graph.runQuery(query) is entered:
\* self.query = query
Call(method, q) ==
    /\ call = None
    /\ Len(sessions) < MaxCalls
    /\ query' = Some(q)
    /\ call' = Some([method |-> method, at |-> "with", opened |-> 0, runs |-> 0,
                     raised |-> FALSE])
    /\ lastError' = NoError
    /\ UNCHANGED <<sessions, graph_data>>

\* with self._driver.session() as session
SessionEnter ==
    /\ call # None
    /\ call[1].at = "with"
    /\ sessions' = Append(sessions, "open")
    /\ call' = Some([call[1] EXCEPT !.at = "run", !.opened = @ + 1])
    /\ UNCHANGED <<query, graph_data, lastError>>

\* session.run(query): the server answers or the driver raises
SessionRun(ok) ==
    /\ call # None
    /\ call[1].at = "run"
    /\ call' = Some([call[1] EXCEPT !.at = "exit", !.runs = @ + 1, !.raised = ~ok])
    /\ UNCHANGED <<query, sessions, graph_data, lastError>>

\* the with block is left: after an error the call ends with it, runQuery
\* returns, getData goes on to build the frame
SessionExit ==
    /\ call # None
    /\ call[1].at = "exit"
    /\ sessions' = exit_session(sessions, call[1].raised)
    /\ call' = IF call[1].raised \/ call[1].method = "runQuery" THEN None
               ELSE Some([call[1] EXCEPT !.at = "frame"])
    /\ lastError' = IF call[1].raised THEN "Error" ELSE NoError
    /\ UNCHANGED <<query, graph_data>>

\* self.data = pd.DataFrame(results.values(), columns=results.keys()),
\* after the session was closed
BuildFrame(outcome, frame) ==
    /\ call # None
    /\ call[1].at = "frame"
    /\ call' = None
    /\ lastError' = IF outcome = "raises" THEN "Error" ELSE NoError
    /\ graph_data' = CASE outcome = "buffered" -> Some(frame)
                       [] outcome = "discarded" ->
                             Some([columns |-> frame.columns, rows |-> <<>>])
                       [] OTHER -> graph_data
    /\ UNCHANGED <<query, sessions>>

\* what the Database methods leave alone
notDbVars == <<prepState, featured, metricVars, harnessVars, poolVars>>

DatabaseNext ==
    \/ \E m \in {"getData", "runQuery"}, q \in Queries : Call(m, q) /\ UNCHANGED notDbVars
    \/ SessionEnter /\ UNCHANGED notDbVars
    \/ \E ok \in BOOLEAN : SessionRun(ok) /\ UNCHANGED notDbVars
    \/ SessionExit /\ UNCHANGED notDbVars
    \/ \E o \in AfterClose, from \in OrderedClients(1), amt \in [1..1 -> Amounts] :
          BuildFrame(o, drop(QueryFrame(from, amt), AddedColumns)) /\ UNCHANGED notDbVars

\* -------------------------------------------------------- specifications
\* no query result at hand, no window features computed
NoRolling ==
    /\ graph_data = None
    /\ featured = None

\* no evaluation cell run
NoHarness ==
    /\ sgd_clf = None
    /\ predictions = None
    /\ conf_matrix = [m \in MatrixNames |-> None]
    /\ measures = [m \in MeasureNames |-> None]
    /\ all_features = None
    /\ shown = None

\* no pool started
NoPool ==
    /\ chunk_list = None
    /\ task = <<>>
    /\ worker = [w \in 1..CpuCount |-> 0]
    /\ ret_list = <<>>
    /\ completed = <<>>

\* graph = Database(uri, ...): no query sent yet
NoDatabase ==
    /\ query = None
    /\ sessions = <<>>
    /\ call = None

\* no labelling scored
NoScoring ==
    /\ y_true = None
    /\ scored = None

\* no record set loaded
NoData == data = [columns |-> <<>>, rows |-> <<>>]

\* nothing constructed, fitted or computed yet
Blank ==
    /\ NoRolling
    /\ NoScoring
    /\ NoHarness
    /\ NoPool
    /\ NoDatabase
    /\ pc = 0
    /\ allFeatures = None
    /\ datasets = [n \in DatasetNames |-> None]
    /\ test_size_arg = [n \in DatasetNames |-> None]
    /\ pipeline = [quant_names |-> None, qual_names |-> None, mean_ |-> None,
                   var_ |-> None, fit_src |-> None, fit_out |-> None]
    /\ X_Prepared = None
    /\ X_Test_Prepared = None
    /\ X_Transformed = None
    /\ lastError = NoError

Init ==
    /\ data \in InputFrames
    /\ Blank

\* the notebook's cells, each free to be run again, and transform
Next ==
    \/ ConstructMlData /\ UNCHANGED notPrepVars
    \/ MergeGraphFeatures /\ UNCHANGED notPrepVars
    \/ ConstructGraphMlData /\ UNCHANGED notPrepVars
    \/ \E name \in DatasetNames : PrepareTrain(name) /\ UNCHANGED notPrepVars
    \/ PrepareTest /\ UNCHANGED notPrepVars
    \/ \E X \in Frames : PipelineTransform(X) /\ UNCHANGED notPrepVars

Spec == Init /\ [][Next]_vars

\* the two selectors on the loaded record set without its identifier and
\* label columns and without any further set of columns
SelectorNext ==
    \E cols \in SUBSET (Range(data.columns) \ (DroppedColumns \cup {LabelColumn})) :
       /\ SelectorsTransform(drop(data, DroppedColumns \cup {LabelColumn} \cup cols))
       /\ UNCHANGED notPrepVars

SpecSelector == Init /\ [][SelectorNext]_vars

\* the Datasets class alone: either name bound from the loaded record set,
\* graph_ml_data also from the joined one, with any held-out fraction
ConstructFromData(name, test_size) == Construct(name, data, test_size)

ConstructFromFeatures(test_size) ==
    /\ allFeatures # None
    /\ Construct("graph_ml_data", drop(allFeatures[1], {"id"}), test_size)

\* the record set df with the label of the rows at the given positions
\* replaced by the other label: t.fraud is whatever the database holds
relabel(df, flipped) ==
    [columns |-> df.columns,
     rows |-> [i \in 1..Len(df.rows) |->
                 [idx |-> df.rows[i].idx,
                  val |-> [c \in DOMAIN df.rows[i].val |->
                             IF c = LabelColumn /\ i \in flipped
                             THEN ~df.rows[i].val[c] ELSE df.rows[i].val[c]]]]]

\* graph_ml_data built from the loaded records carrying other labels
ConstructRelabelled(test_size, flipped) ==
    Construct("graph_ml_data", relabel(data, flipped), test_size)

SplitNext ==
    \/ \E name \in DatasetNames, ts \in TestSizes :
          ConstructFromData(name, ts) /\ UNCHANGED notPrepVars
    \/ MergeGraphFeatures /\ UNCHANGED notPrepVars
    \/ \E ts \in TestSizes : ConstructFromFeatures(ts) /\ UNCHANGED notPrepVars

SpecSplit == Init /\ [][SplitNext]_vars

\* the Datasets class on two record sets that differ in their labels only
LabelNext ==
    \/ \E ts \in TestSizes : ConstructFromData("ml_data", ts) /\ UNCHANGED notPrepVars
    \/ \E ts \in TestSizes, flipped \in SUBSET (1..Len(data.rows)) :
          ConstructRelabelled(ts, flipped) /\ UNCHANGED notPrepVars

SpecLabels == Init /\ [][LabelNext]_vars

\* the join cells alone, on record sets that may hold unscored targets
InitMerge ==
    /\ data \in MergeFrames
    /\ Blank

MergeNext ==
    \/ ConstructMlData /\ UNCHANGED notPrepVars
    \/ MergeGraphFeatures /\ UNCHANGED notPrepVars
    \/ ConstructGraphMlData /\ UNCHANGED notPrepVars

SpecMerge == InitMerge /\ [][MergeNext]_vars

\* the Datasets class on record sets that may hold a missing amount
InitMissing ==
    /\ data \in MissingFrames
    /\ Blank

MissingNext ==
    /\ \E name \in DatasetNames, ts \in TestSizes : ConstructFromData(name, ts)
    /\ UNCHANGED notPrepVars

SpecMissing == InitMissing /\ [][MissingNext]_vars

\* the window-feature cell on the result of the transaction query
InitRolling ==
    /\ \E n \in 1..MaxTx :
          \E from \in OrderedClients(n), amt \in [1..n -> Amounts] :
             graph_data = Some(QueryFrame(from, amt))
    /\ featured = None
    /\ NoData
    /\ NoScoring
    /\ NoHarness
    /\ NoPool
    /\ NoDatabase
    /\ pc = 0
    /\ allFeatures = None
    /\ datasets = [n \in DatasetNames |-> None]
    /\ test_size_arg = [n \in DatasetNames |-> None]
    /\ pipeline = [quant_names |-> None, qual_names |-> None, mean_ |-> None,
                   var_ |-> None, fit_src |-> None, fit_out |-> None]
    /\ X_Prepared = None
    /\ X_Test_Prepared = None
    /\ X_Transformed = None
    /\ lastError = NoError

RollingNext ==
    /\ ComputeWindowFeatures
    /\ UNCHANGED notRollVars

SpecRolling == InitRolling /\ [][RollingNext]_vars

\* the pool of applyParallel on the result of the transaction query
InitPool ==
    /\ \E n \in 1..MaxRows :
          \E from \in OrderedClients(n), amt \in [1..n -> Amounts] :
             graph_data = Some(QueryFrame(from, amt))
    /\ featured = None
    /\ NoData
    /\ NoScoring
    /\ NoHarness
    /\ NoPool
    /\ NoDatabase
    /\ pc = 0
    /\ allFeatures = None
    /\ datasets = [n \in DatasetNames |-> None]
    /\ test_size_arg = [n \in DatasetNames |-> None]
    /\ pipeline = [quant_names |-> None, qual_names |-> None, mean_ |-> None,
                   var_ |-> None, fit_src |-> None, fit_out |-> None]
    /\ X_Prepared = None
    /\ X_Test_Prepared = None
    /\ X_Transformed = None
    /\ lastError = NoError

SpecPool == InitPool /\ [][PoolNext]_vars

\* the Database object from its construction on
InitDatabase ==
    /\ graph_data = None
    /\ featured = None
    /\ NoData
    /\ NoScoring
    /\ NoHarness
    /\ NoPool
    /\ NoDatabase
    /\ pc = 0
    /\ allFeatures = None
    /\ datasets = [n \in DatasetNames |-> None]
    /\ test_size_arg = [n \in DatasetNames |-> None]
    /\ pipeline = [quant_names |-> None, qual_names |-> None, mean_ |-> None,
                   var_ |-> None, fit_src |-> None, fit_out |-> None]
    /\ X_Prepared = None
    /\ X_Test_Prepared = None
    /\ X_Transformed = None
    /\ lastError = NoError

SpecDatabase == InitDatabase /\ [][DatabaseNext]_vars

\* the window-feature cell on query results of two clients whose
\* transactions fall in one chunk when CpuCount is 2
PairedClients == {1, 7}

InitWindow ==
    /\ \E n \in 1..MaxTx :
          \E from \in {f \in OrderedClients(n) : Range(f) \subseteq PairedClients},
             amt \in [1..n -> Amounts] :
             graph_data = Some(QueryFrame(from, amt))
    /\ featured = None
    /\ NoData
    /\ NoScoring
    /\ NoHarness
    /\ NoPool
    /\ NoDatabase
    /\ pc = 0
    /\ allFeatures = None
    /\ datasets = [n \in DatasetNames |-> None]
    /\ test_size_arg = [n \in DatasetNames |-> None]
    /\ pipeline = [quant_names |-> None, qual_names |-> None, mean_ |-> None,
                   var_ |-> None, fit_src |-> None, fit_out |-> None]
    /\ X_Prepared = None
    /\ X_Test_Prepared = None
    /\ X_Transformed = None
    /\ lastError = NoError

SpecWindow == InitWindow /\ [][RollingNext]_vars

\* the notebook run from top to bottom, the test-performance cell
\* included, on a loaded record set large enough for a held-out set that
\* can be cut in five folds: transactions of client 1 followed by
\* transactions of client 2
TestCellFrames ==
    { DataFrame([i \in 1..TestCellRows |->
                   CHOOSE t \in Transactions : t.fromId = (IF i <= a THEN 1 ELSE 2)]) :
        a \in 0..TestCellRows }

InitTestCell ==
    /\ data \in TestCellFrames
    /\ pc = 348
    /\ NoRolling
    /\ NoScoring
    /\ NoHarness
    /\ NoPool
    /\ NoDatabase
    /\ allFeatures = None
    /\ datasets = [n \in DatasetNames |-> None]
    /\ test_size_arg = [n \in DatasetNames |-> None]
    /\ pipeline = [quant_names |-> None, qual_names |-> None, mean_ |-> None,
                   var_ |-> None, fit_src |-> None, fit_out |-> None]
    /\ X_Prepared = None
    /\ X_Test_Prepared = None
    /\ X_Transformed = None
    /\ lastError = NoError

TestCellNext ==
    \/ NotebookNext
    \/ At(914, 919, Measures("test_performance_measures",
                             labels(datasets["graph_ml_data"][1].Y_Test)))
    \/ At(919, 920, PrintConfusionMatrix)
    \/ Display

SpecTestCell == InitTestCell /\ [][TestCellNext]_vars

\* the scoring functions on a label vector and its predicted labellings
InitMetrics ==
    /\ \E y \in LabelVectors : y_true = Some(y)
    /\ scored = None
    /\ NoData
    /\ NoRolling
    /\ NoHarness
    /\ NoPool
    /\ NoDatabase
    /\ pc = 0
    /\ allFeatures = None
    /\ datasets = [n \in DatasetNames |-> None]
    /\ test_size_arg = [n \in DatasetNames |-> None]
    /\ pipeline = [quant_names |-> None, qual_names |-> None, mean_ |-> None,
                   var_ |-> None, fit_src |-> None, fit_out |-> None]
    /\ X_Prepared = None
    /\ X_Test_Prepared = None
    /\ X_Transformed = None
    /\ lastError = NoError

MetricsNext ==
    /\ \E p \in Predictions(y_true[1]) : Score(p)
    /\ UNCHANGED notMetricVars

SpecMetrics == InitMetrics /\ [][MetricsNext]_vars

\* the notebook run from top to bottom on a loaded record set of
\* NotebookRows transactions
NotebookFrames ==
    { DataFrame(ts) :
        ts \in {t \in [1..NotebookRows -> Transactions] :
                  \A i \in 1..(NotebookRows - 1) : t[i].fromId <= t[i + 1].fromId} }

InitNotebook ==
    /\ data \in NotebookFrames
    /\ pc = 348
    /\ NoRolling
    /\ NoScoring
    /\ NoHarness
    /\ NoPool
    /\ NoDatabase
    /\ allFeatures = None
    /\ datasets = [n \in DatasetNames |-> None]
    /\ test_size_arg = [n \in DatasetNames |-> None]
    /\ pipeline = [quant_names |-> None, qual_names |-> None, mean_ |-> None,
                   var_ |-> None, fit_src |-> None, fit_out |-> None]
    /\ X_Prepared = None
    /\ X_Test_Prepared = None
    /\ X_Transformed = None
    /\ lastError = NoError

SpecNotebook == InitNotebook /\ [][NotebookNext]_vars

\* ------------------------------------------------------------ properties
Bound == {n \in DatasetNames : datasets[n] # None}
Indexes(df) == {df.rows[i].idx : i \in 1..Len(df.rows)}

C2_PartitionDisjointExhaustive ==
    \A a \in Bound :
        LET d == datasets[a][1]
            both == d.train_set.rows \o d.test_set.rows
        IN  /\ Len(d.train_set.rows) + Len(d.test_set.rows) = Len(d.original_data.rows)
            /\ Len(d.data.rows) = Len(d.original_data.rows)
            /\ Indexes(d.train_set) \cap Indexes(d.test_set) = {}
            /\ \A i \in 1..Len(d.data.rows) :
                   Cardinality({j \in 1..Len(both) : both[j] = d.data.rows[i]}) = 1

C2_Witness ==
    /\ datasets["ml_data"] # None
    /\ Len(datasets["ml_data"][1].train_set.rows) >= 2
    /\ Len(datasets["ml_data"][1].test_set.rows) >= 2
    /\ \E i, j \in 1..Len(data.rows) :
          i # j /\ data.rows[i].val["txType"] = data.rows[j].val["txType"]

\* C9: in each partition the feature view has every column but the label
\* and the label vector has the partition's labels in the partition's row
\* order, so row i of the features and entry i of the labels come from
\* row i of the partition; the partition itself still carries the label
FeaturesAndLabelsOf(part, X, Y) ==
    /\ LabelColumn \in Range(part.columns)
    /\ X.columns = SelectSeq(part.columns, LAMBDA c : c # LabelColumn)
    /\ Len(X.rows) = Len(part.rows)
    /\ Len(Y) = Len(part.rows)
    /\ \A i \in 1..Len(part.rows) :
          /\ X.rows[i].idx = part.rows[i].idx
          /\ Y[i].idx = part.rows[i].idx
          /\ Y[i].val = part.rows[i].val[LabelColumn]
          /\ DOMAIN X.rows[i].val = (DOMAIN part.rows[i].val) \ {LabelColumn}
          /\ \A c \in DOMAIN X.rows[i].val : X.rows[i].val[c] = part.rows[i].val[c]

C9_FeaturesLabelsAligned ==
    \A a \in Bound :
        LET d == datasets[a][1]
        IN  /\ FeaturesAndLabelsOf(d.train_set, d.X_Train_DF, d.Y_Train)
            /\ FeaturesAndLabelsOf(d.test_set, d.X_Test_DF, d.Y_Test)

C9_Witness ==
    /\ datasets["ml_data"] # None
    /\ \E i, j \in 1..Len(datasets["ml_data"][1].Y_Train) :
          /\ datasets["ml_data"][1].Y_Train[i].val
          /\ ~datasets["ml_data"][1].Y_Train[j].val
    /\ datasets["ml_data"][1].train_set.rows[1].idx # 0
    /\ datasets["ml_data"][1].Y_Train[1].idx = datasets["ml_data"][1].train_set.rows[1].idx

\* C10: the working record set of a constructed Datasets, and so its
\* partitions, has none of data_chunk, txOrder, fromId, toId, and its
\* previousTxType is 'First' where the input had none and the input's
\* value everywhere else
C10_DroppedAndFilled ==
    \A a \in Bound :
        LET d == datasets[a][1]
        IN  /\ \A f \in {d.data, d.train_set, d.test_set} :
                  /\ Range(f.columns) \cap DroppedColumns = {}
                  /\ \A i \in 1..Len(f.rows) :
                        /\ (DOMAIN f.rows[i].val) \cap DroppedColumns = {}
                        /\ f.rows[i].val["previousTxType"] # NaN
            /\ \A i \in 1..Len(d.data.rows) :
                  d.data.rows[i].val["previousTxType"] =
                      IF d.original_data.rows[i].val["previousTxType"] = NaN
                      THEN First
                      ELSE d.original_data.rows[i].val["previousTxType"]

C10_Witness ==
    /\ datasets["graph_ml_data"] # None
    /\ \E i, j \in 1..Len(datasets["graph_ml_data"][1].data.rows) :
          /\ datasets["graph_ml_data"][1].original_data.rows[i].val["previousTxType"] = NaN
          /\ datasets["graph_ml_data"][1].data.rows[i].val["previousTxType"] = First
          /\ datasets["graph_ml_data"][1].original_data.rows[j].val["previousTxType"] # NaN
    /\ DroppedColumns \subseteq Range(datasets["graph_ml_data"][1].original_data.columns)

\* the positions, in the input record set, of the rows of a partition
PositionsOf(part, original) ==
    [i \in 1..Len(part.rows) |->
       CHOOSE q \in 1..Len(original.rows) : original.rows[q].idx = part.rows[i].idx]

\* C11: the split is not informed by the label: two Datasets built with
\* the same held-out fraction from record sets that are equal in
\* everything but the label values send every record position to the
\* same partition, at the same place in it
C11_SplitIgnoresLabels ==
    \A a, b \in Bound :
        LET da == datasets[a][1]
            db == datasets[b][1]
        IN  (/\ drop(da.original_data, {LabelColumn}) = drop(db.original_data, {LabelColumn})
             /\ test_size_arg[a] = test_size_arg[b])
            => /\ PositionsOf(da.train_set, da.original_data) =
                      PositionsOf(db.train_set, db.original_data)
               /\ PositionsOf(da.test_set, da.original_data) =
                      PositionsOf(db.test_set, db.original_data)
               /\ da.X_Train_DF = db.X_Train_DF
               /\ da.X_Test_DF = db.X_Test_DF

C11_Witness ==
    /\ datasets["ml_data"] # None
    /\ datasets["graph_ml_data"] # None
    /\ test_size_arg["ml_data"] = test_size_arg["graph_ml_data"]
    /\ datasets["ml_data"][1].original_data # datasets["graph_ml_data"][1].original_data
    /\ drop(datasets["ml_data"][1].original_data, {LabelColumn}) =
          drop(datasets["graph_ml_data"][1].original_data, {LabelColumn})
    /\ Len(datasets["ml_data"][1].test_set.rows) >= 2
    /\ datasets["ml_data"][1].Y_Train # datasets["graph_ml_data"][1].Y_Train
    /\ datasets["ml_data"][1].Y_Test # datasets["graph_ml_data"][1].Y_Test
\* the encoder's block of a prepared matrix m = [src, out]: what follows
\* the quantitative columns
EncodedBlock(m) ==
    [i \in 1..Len(m.out) |->
       SubSeq(m.out[i], Len(select_dtypes(m.src, TRUE)) + 1, Len(m.out[i]))]

\* one indicator per class, in class order
OneHot(v, classes) == [k \in 1..Len(classes) |-> IF v = classes[k] THEN 1 ELSE 0]

\* the block a fit/transform encoder gives for X when its classes were
\* learned from F: per qualitative column of X, left to right, one
\* indicator per distinct value of that column in F, in sorted order
OneHotBlock(X, F) ==
    LET x == values(X, select_dtypes(X, FALSE))
        f == values(F, select_dtypes(F, FALSE))
    IN  to_float([i \in 1..Len(x) |->
                    Flatten([c \in 1..Width(x) |->
                               OneHot(x[i][c], unique([r \in 1..Len(f) |-> f[r][c]]))])])

\* C3: the test matrix is made by the pipeline as fitted on the training
\* features: the step that produces X_Test_Prepared keeps the scaler's mean
\* and variance learned from the training set and applies them
C3_TestReusesTrainFit ==
    [][(/\ PrepareTest
        /\ pipeline.fit_src = Some(datasets["graph_ml_data"][1].X_Train_DF))
       => /\ pipeline'.mean_ = pipeline.mean_
          /\ pipeline'.var_ = pipeline.var_
          /\ X_Test_Prepared'[1].out =
                 transform(pipeline, datasets["graph_ml_data"][1].X_Test_DF)]_vars

\* C4: the encoder gives as many columns for the test set as for the train
\* set of the same Datasets, whichever values fall in which split
C4_EncoderWidthTrainEqualsTest ==
    (/\ X_Prepared # None
     /\ X_Test_Prepared # None
     /\ datasets["graph_ml_data"] # None
     /\ X_Prepared[1].src = datasets["graph_ml_data"][1].X_Train_DF
     /\ X_Test_Prepared[1].src = datasets["graph_ml_data"][1].X_Test_DF)
    => Width(EncodedBlock(X_Prepared[1])) = Width(EncodedBlock(X_Test_Prepared[1]))

\* C5: after a fit on data whose qualitative column has k distinct values,
\* transforming a one-row record set whose value v is among them gives the
\* k-wide row with 1 at v's sorted position and 0 elsewhere
C5_SingleRowOneHot ==
    [][\A X \in Frames :
         (/\ PipelineTransform(X)
          /\ pipeline.fit_src # None
          /\ transform_error(pipeline, X) = NoError
          /\ Len(X.rows) = 1
          /\ \A c \in ObjectColumns :
                X.rows[1].val[c] \in {pipeline.fit_src[1].rows[r].val[c] :
                                       r \in 1..Len(pipeline.fit_src[1].rows)})
         => EncodedBlock(X_Transformed'[1]) = OneHotBlock(X, pipeline.fit_src[1])]_vars

\* C6: the encoder's block of a fitted matrix has, per qualitative column
\* left to right, one indicator column per distinct value of the column in
\* sorted order, also when a column has one or two distinct values
C6_OneColumnPerDistinctValue ==
    X_Prepared # None
    => EncodedBlock(X_Prepared[1]) = OneHotBlock(X_Prepared[1].src, X_Prepared[1].src)

\* C7: transform on the record set the pipeline was last fitted on returns
\* the matrix fit_transform returned, each time it is called
C7_TransformAfterFitSame ==
    [][\A X \in Frames :
         (PipelineTransform(X) /\ pipeline.fit_src = Some(X))
         => /\ lastError' = NoError
            /\ X_Transformed' = Some([src |-> X, out |-> pipeline.fit_out[1]])]_vars

C7_Witness ==
    /\ X_Transformed # None
    /\ pipeline.fit_src = Some(X_Transformed[1].src)
    /\ pipeline.fit_out = Some(X_Transformed[1].out)
    /\ Len(X_Transformed[1].out) >= 2
    /\ \E j \in 1..Len(pipeline.var_[1]) : pipeline.var_[1][j][1] # 0
    /\ Width(EncodedBlock(X_Transformed[1])) >= 3

\* C8: once the pipeline is fitted, a transform call leaves the column
\* lists of both selectors as the fit recorded them, whatever record set
\* it is given
C8_TransformKeepsAttributeNames ==
    [][\A X \in Frames :
         (PipelineTransform(X) /\ pipeline.fit_src # None)
         => /\ pipeline'.quant_names = Some(select_dtypes(pipeline.fit_src[1], TRUE))
            /\ pipeline'.qual_names = Some(select_dtypes(pipeline.fit_src[1], FALSE))]_vars

\* the matrix m = [src, out] has the layout of the pipeline's output for
\* a scaler holding mean_ and var_: row i comes from record i of src, its
\* first cells are the quantitative columns of that record, standardized,
\* in column order, the following cells are the encoder's row for that
\* record
HasLayout(m, mean_, var_) ==
    LET quant == select_dtypes(m.src, TRUE)
        enc == MyLabelBinarizer_transform(values(m.src, select_dtypes(m.src, FALSE)))
    IN  /\ Len(m.out) = Len(m.src.rows)
        /\ \A i \in 1..Len(m.out) :
              /\ Len(m.out[i]) = Len(quant) + Width(enc)
              /\ \A j \in 1..Len(quant) :
                    m.out[i][j] = standardize(m.src.rows[i].val[quant[j]], mean_[j], var_[j])
              /\ \A j \in 1..Width(enc) :
                    m.out[i][Len(quant) + j] = AsReal(enc[i][j])

\* C12: each matrix a step stores is laid out for the scaler that made it
\* (the one just fitted for fit_transform, the one already held for
\* transform): the pipeline's output has one row per
\* input record in input order, the normalized quantitative columns first
\* and the encoded qualitative columns after them, and as many columns as
\* there are quantitative columns plus columns of the encoder
C12_OutputLayout ==
    [][/\ X_Prepared' # X_Prepared
             => HasLayout(X_Prepared'[1], pipeline'.mean_[1], pipeline'.var_[1])
       /\ X_Test_Prepared' # X_Test_Prepared
             => HasLayout(X_Test_Prepared'[1], pipeline'.mean_[1], pipeline'.var_[1])
       /\ X_Transformed' # X_Transformed
             => HasLayout(X_Transformed'[1], pipeline.mean_[1], pipeline.var_[1])]_vars

C12_Witness ==
    /\ X_Prepared # None
    /\ X_Transformed # None
    /\ Len(X_Prepared[1].out) >= 3
    /\ X_Prepared[1].out[1] # X_Prepared[1].out[2]
    /\ Width(EncodedBlock(X_Prepared[1])) >= 3
    /\ \E j \in 1..Len(pipeline.var_[1]) : pipeline.var_[1][j][1] # 0
    /\ Len(X_Transformed[1].out) >= 2
    /\ X_Transformed[1].out[1] # X_Transformed[1].out[2]

\* C15: when the toId of every record is an id of the score table, the
\* join holds one row per input record: as many rows as records and, for
\* each record, exactly one row carrying its cells, next to the scores of
\* the node its toId names
C15_JoinOneRowPerRecord ==
    (allFeatures # None /\ datasets["ml_data"] # None)
    => LET L == datasets["ml_data"][1].original_data
           J == allFeatures[1]
           ids == {graphFeatures.rows[k].val["id"] : k \in 1..Len(graphFeatures.rows)}
           carries(j, i) == \A c \in Range(L.columns) : J.rows[j].val[c] = L.rows[i].val[c]
       IN  (\A i \in 1..Len(L.rows) : L.rows[i].val["toId"] \in ids)
           => /\ Len(J.rows) = Len(L.rows)
              /\ \A i \in 1..Len(L.rows) :
                    /\ Cardinality({j \in 1..Len(J.rows) : carries(j, i)}) = 1
                    /\ \A j \in 1..Len(J.rows) :
                          carries(j, i)
                          => \E k \in 1..Len(graphFeatures.rows) :
                                /\ graphFeatures.rows[k].val["id"] = L.rows[i].val["toId"]
                                /\ \A c \in Range(GraphColumns) :
                                      J.rows[j].val[c] = graphFeatures.rows[k].val[c]

C15_Witness ==
    /\ allFeatures # None
    /\ Len(allFeatures[1].rows) = Len(data.rows)
    /\ Len(data.rows) >= 3
    /\ \A i \in 1..Len(data.rows) : data.rows[i].val["toId"] \in {10, 11}
    /\ \E i, j \in 1..Len(data.rows) :
          /\ i # j
          /\ data.rows[i].val["toId"] = data.rows[j].val["toId"]
    /\ \E i, j \in 1..Len(data.rows) :
          /\ allFeatures[1].rows[i].val["pageRank"] = 1
          /\ allFeatures[1].rows[j].val["pageRank"] = 3

\* C19: transform on a pipeline that was never fitted ends in
\* NotFittedError and stores no matrix, and a step stores the matrix of a
\* transform only when a fit_transform of the pipeline came before it
C19_FitBeforeTransform ==
    [][/\ \A X \in Frames :
             (pipeline.fit_src = None /\ PipelineTransform(X))
             => /\ lastError' = "NotFittedError"
                /\ X_Transformed' = X_Transformed
                /\ pipeline'.fit_src = None
       /\ X_Transformed' # X_Transformed => pipeline.fit_src # None]_vars

C19_Witness ==
    /\ lastError = "NotFittedError"
    /\ pipeline.fit_src = None
    /\ pipeline.quant_names # None
    /\ X_Transformed = None
    /\ X_Prepared = None

\* the numeric columns a missing amount shows in
AmountColumns ==
    {"txAmount", "min7PrevTxAmount", "mean7PrevTxAmount", "max7PrevTxAmount"}

\* C20: a record set with a missing value in a column other than
\* previousTxType makes the constructor fail at the split: no Datasets
\* exists whose input has such a value, and the feature frames handed to
\* the scaler hold none
C20_MissingElsewhereFails ==
    \A a \in Bound :
        LET d == datasets[a][1]
        IN  \A f \in {d.original_data, d.X_Train_DF, d.X_Test_DF} :
               \A i \in 1..Len(f.rows) :
                  \A c \in AmountColumns : f.rows[i].val[c] # NoAmount

\* the amounts of the transactions of the client of row q of graph.data
\* that come before row q, the last 7 of them at most
AmountsBefore(g, q) ==
    LET before == SelectSeq([i \in 1..(q - 1) |-> g.rows[i]],
                            LAMBDA r : r.val["fromId"] = g.rows[q].val["fromId"])
        first == IF Len(before) > 7 THEN Len(before) - 7 + 1 ELSE 1
    IN  [k \in 1..(Len(before) - first + 1) |-> before[first + k - 1].val["txAmount"]]

\* C14: for every transaction that has an earlier one of the same client,
\* the three window columns hold the minimum, the mean and the maximum of
\* the amounts of the up to 7 transactions of that client before it, its
\* own amount left out
C14_WindowIsPreviousSeven ==
    featured # None
    => \A r \in 1..Len(featured[1].rows) :
          LET row == featured[1].rows[r]
              w == AmountsBefore(graph_data[1], row.idx + 1)
          IN  w # <<>>
              => /\ row.val["min7PrevTxAmount"] = Frac(SeqMin(w), 1)
                 /\ row.val["mean7PrevTxAmount"] = Frac(SeqSum(w), Len(w))
                 /\ row.val["max7PrevTxAmount"] = Frac(SeqMax(w), 1)

\* the number of entries labelled v that the scored labelling predicts w
Cell(v, w) == count(y_true[1], scored[1].predictions, v, w)

\* C16: for any labelling of any label vector, with TP, FP, FN, TN counted
\* from the two vectors, the matrix cells add up to the number of records,
\* a matrix of two classes is [[TN, FP], [FN, TP]] (rows true class,
\* columns predicted class), precision * (TP + FP) = TP and
\* recall * (TP + FN) = TP, also when TP + FP = 0 or TP + FN = 0
C16_ConfusionMatrixIdentities ==
    scored # None
    => LET m == scored[1].conf_matrix
           prec == scored[1].precision
           rec == scored[1].recall
       IN  /\ SeqSum([i \in 1..Len(m) |-> SeqSum(m[i])]) = Len(y_true[1])
           /\ Len(m) = 2
                 => m = << <<Cell(FALSE, FALSE), Cell(FALSE, TRUE)>>,
                           <<Cell(TRUE, FALSE), Cell(TRUE, TRUE)>> >>
           /\ prec[1] * (Cell(TRUE, TRUE) + Cell(FALSE, TRUE)) = Cell(TRUE, TRUE) * prec[2]
           /\ rec[1] * (Cell(TRUE, TRUE) + Cell(TRUE, FALSE)) = Cell(TRUE, TRUE) * rec[2]

C16_Witness ==
    /\ scored # None
    /\ Len(scored[1].conf_matrix) = 2
    /\ Cell(TRUE, TRUE) + Cell(FALSE, TRUE) = 0
    /\ Cell(TRUE, FALSE) > 0
    /\ Cell(FALSE, FALSE) > 0
    /\ scored[1].precision = <<0, 1>>
    /\ scored[1].recall = <<0, 1>>

\* C17: a labelling that is negative everywhere has recall 0, no true
\* positive, every positive as a false negative and the share of negatives
\* as accuracy: 0.99 on a vector with 99% negatives and 1% positives
C17_AlwaysNegative ==
    (scored # None /\ \A i \in 1..Len(y_true[1]) : ~scored[1].predictions[i])
    => LET n == Len(y_true[1])
           pos == Cardinality({i \in 1..n : y_true[1][i]})
       IN  /\ scored[1].recall = <<0, 1>>
           /\ Cell(TRUE, TRUE) = 0
           /\ Cell(TRUE, FALSE) = pos
           /\ scored[1].accuracy = Frac(n - pos, n)
           /\ 100 * pos = n => scored[1].accuracy = <<99, 100>>
           /\ pos > 0 => scored[1].conf_matrix = << <<n - pos, 0>>, <<pos, 0>> >>

C17_Witness ==
    /\ scored # None
    /\ Len(y_true[1]) = 100
    /\ Cardinality({i \in 1..100 : y_true[1][i]}) = 1
    /\ \A i \in 1..100 : ~scored[1].predictions[i]
    /\ scored[1].accuracy = <<99, 100>>
    /\ scored[1].recall = <<0, 1>>

\* what the columns of the matrix fitted on X hold, column by column: the
\* quantitative columns under their names, then per qualitative column
\* the encoder's indicator columns in the order it gives them, one per
\* sorted class when there are three or more, and a single column (that
\* of the last class) when there are one or two
ColumnNames(X) ==
    LET qual == select_dtypes(X, FALSE)
    IN  select_dtypes(X, TRUE) \o
        Flatten([c \in 1..Len(qual) |->
                   LET cls == unique([i \in 1..Len(X.rows) |-> X.rows[i].val[qual[c]]])
                   IN  IF Len(cls) >= 3
                       THEN [k \in 1..Len(cls) |-> qual[c] \o "_" \o cls[k]]
                       ELSE <<qual[c] \o "_" \o cls[Len(cls)]>>])

\* C13: while sgd_clf holds the fit on X_Prepared, all_features has one
\* name per coefficient, and name i names what column i of that matrix
\* holds: the quantitative names first, then per qualitative column one
\* name per indicator column in the encoder's order
C13_NamesAlignedWithColumns ==
    (/\ all_features # None
     /\ sgd_clf # None
     /\ sgd_clf[1].fitted
     /\ X_Prepared # None)
    => /\ Len(all_features[1]) = sgd_clf[1].n_features
       /\ all_features[1] = ColumnNames(X_Prepared[1].src)

\* the lines of the cross-validated predictions and of the coefficient
\* listings
PredictionLines == {539, 776, 886, 913}
CoefficientLines == {868, 896}

\* C18 as claimed: cross-validated prediction and coefficient retrieval
\* are run on a fitted model only, a model is Evaluated only while fitted,
\* and a model that was fitted stays fitted in every statement that
\* succeeds, the change to another regularization included: it never
\* passes through Unfitted again
C18_NeverBackToUnfitted ==
    [][/\ pc \in PredictionLines \cup CoefficientLines
             => (sgd_clf # None /\ sgd_clf[1].fitted)
       /\ (sgd_clf' # None /\ sgd_clf'[1].evaluated) => sgd_clf'[1].fitted
       /\ (sgd_clf # None /\ sgd_clf[1].fitted /\ lastError' = NoError)
             => sgd_clf'[1].fitted]_vars

\* C18, amended: cross-validated prediction and coefficient retrieval are
\* run on a fitted model only and a model is Evaluated only while fitted;
\* a statement that changes the regularization binds a new model, which
\* is Unfitted, and only a fit makes a model Fitted, so the second
\* evaluation goes Unfitted -> Fitted -> Evaluated again
C18_RefitFromNewModel ==
    [][/\ pc \in PredictionLines \cup CoefficientLines
             => (sgd_clf # None /\ sgd_clf[1].fitted)
       /\ (sgd_clf' # None /\ sgd_clf'[1].evaluated)
             => (sgd_clf'[1].fitted /\ sgd_clf # None /\ sgd_clf[1].fitted)
       /\ (sgd_clf # None /\ sgd_clf' # None
             /\ sgd_clf'[1].penalty # sgd_clf[1].penalty)
             => (~sgd_clf'[1].fitted /\ ~sgd_clf'[1].evaluated)
       /\ (sgd_clf' # None /\ sgd_clf'[1].fitted
             /\ (sgd_clf = None \/ ~sgd_clf[1].fitted))
             => pc \in {494, 752, 885}]_vars

C18_Witness ==
    /\ pc = 896
    /\ lastError = NoError
    /\ sgd_clf # None
    /\ sgd_clf[1].penalty = "elasticnet"
    /\ sgd_clf[1].fitted
    /\ sgd_clf[1].evaluated
    /\ conf_matrix["ml_conf_matrix"] # None
    /\ conf_matrix["graph_ml_conf_matrix"] # None

\* the labels the cross-validated prediction at line pc is made for
PredictedLabels ==
    IF pc = 539 THEN TrainLabels("ml_data")
    ELSE IF pc = 913 THEN labels(datasets["graph_ml_data"][1].Y_Test)
    ELSE TrainLabels("graph_ml_data")

\* C21: a cross-validated prediction with 5 folds on labels of which some
\* class has fewer than 5 records raises an error and binds no predictions
C21_FewMembersFailFast ==
    [][(/\ pc \in PredictionLines
        /\ lastError = NoError
        /\ \E v \in Range(PredictedLabels) : members(PredictedLabels, v) < Folds)
       => (lastError' # NoError /\ predictions' = predictions)]_vars

\* the rows of all chunks handed to the pool
ChunkRows == Flatten(chunk_list[1])

\* C22: the chunks keep every client whole; all transactions of a client
\* are in one chunk, the one of its fromId modulo 3 * CpuCount, and every
\* row of the query result is in exactly one chunk, once
C22_ChunksKeepClientsWhole ==
    chunk_list # None =>
       /\ \A a, b \in 1..Len(chunk_list[1]) :
             \A i \in 1..Len(chunk_list[1][a]), j \in 1..Len(chunk_list[1][b]) :
                chunk_list[1][a][i].val["fromId"] = chunk_list[1][b][j].val["fromId"]
                   => a = b
       /\ \A a \in 1..Len(chunk_list[1]) : \A i \in 1..Len(chunk_list[1][a]) :
             chunk_list[1][a][i].val["data_chunk"]
                = chunk_list[1][a][i].val["fromId"] % (3 * CpuCount)
       /\ Len(ChunkRows) = Len(graph_data[1].rows)
       /\ \A i \in 1..Len(graph_data[1].rows) :
             Cardinality({j \in 1..Len(ChunkRows) : ChunkRows[j] = graph_data[1].rows[i]}) = 1

C22_Witness ==
    /\ chunk_list # None
    /\ Len(chunk_list[1]) >= 2
    /\ \E a \in 1..Len(chunk_list[1]) :
          \E i, j \in 1..Len(chunk_list[1][a]) :
             chunk_list[1][a][i].val["fromId"] # chunk_list[1][a][j].val["fromId"]

\* the rows of a frame as a set
RowSet(rows) == {rows[i] : i \in 1..Len(rows)}

\* C23: in whatever order the workers take and end the chunks, the frame
\* applyParallel returns holds each row of the query result exactly once,
\* each with the window features the chunks computed one after the other
\* give it
C23_AnyOrderSameRows ==
    featured # None =>
       /\ Len(featured[1].rows) = Len(graph_data[1].rows)
       /\ \A i \in 1..Len(graph_data[1].rows) :
             Cardinality({j \in 1..Len(featured[1].rows) :
                            featured[1].rows[j].idx = graph_data[1].rows[i].idx}) = 1
       /\ RowSet(featured[1].rows) = RowSet(applyParallel(graph_data[1]).rows)

C23_Witness ==
    /\ featured # None
    /\ completed = <<2, 1>>
    /\ \E i \in 1..Len(featured[1].rows) :
          featured[1].rows[i].val["mean7PrevTxAmount"]
             # featured[1].rows[i].val["max7PrevTxAmount"]

\* C24: once the function raised for a chunk the step gives no frame, not
\* even of the chunks whose results came in, and no task is run a second
\* time
C24_OneFailureAbortsAll ==
    /\ (\E k \in 1..Len(task) : task[k] = "failed") => featured = None
    /\ lastError # NoError => featured = None
    /\ \A i, j \in 1..Len(completed) : completed[i] = completed[j] => i = j

C24_Witness ==
    /\ lastError # NoError
    /\ featured = None
    /\ \E k \in 1..Len(task) : task[k] = "done" /\ ret_list[k] # None
    /\ \E k \in 1..Len(task) : task[k] = "failed"

\* C25: a getData or runQuery call ends with the one session it opened
\* closed and the query run once, whether session.run returned or raised;
\* between calls no session is open, and never more than one is
C25_SessionsReleased ==
    [][/\ (call # None /\ call' = None)
             => (call[1].opened = 1 /\ call[1].runs = 1)
       /\ call' = None => \A i \in 1..Len(sessions') : sessions'[i] = "closed"
       /\ Cardinality({i \in 1..Len(sessions') : sessions'[i] = "open"}) <= 1
       /\ Len(sessions') <= Len(sessions) + 1]_vars

C25_Witness ==
    /\ call = None
    /\ lastError # NoError
    /\ graph_data = None
    /\ Len(sessions) >= 2
    /\ \A i \in 1..Len(sessions) : sessions[i] = "closed"

\* the frame df with the amount of its row j replaced by a
with_amount(df, j, a) ==
    [columns |-> df.columns,
     rows |-> [i \in 1..Len(df.rows) |->
                 IF i = j THEN [df.rows[i] EXCEPT !.val["txAmount"] = a]
                 ELSE df.rows[i]]]

\* the window columns of the row with index label idx
WindowOf(rows, idx) ==
    LET r == CHOOSE i \in 1..Len(rows) : rows[i].idx = idx
    IN  <<rows[r].val["min7PrevTxAmount"], rows[r].val["mean7PrevTxAmount"],
          rows[r].val["max7PrevTxAmount"]>>

\* C29: the window columns of a transaction are the same when the amount
\* of a transaction of another client is changed, and when the amount of a
\* transaction of its own client 7 or more places before it is changed: a
\* window holds amounts of the row's client only, and at most 7 of them
C29_EntityIsolation ==
    featured # None =>
       \A j \in 1..Len(graph_data[1].rows) :
          \A a \in Amounts \ {graph_data[1].rows[j].val["txAmount"]} :
             LET other == applyParallel(with_amount(graph_data[1], j, a)).rows
             IN  \A i \in 1..Len(graph_data[1].rows) :
                    (\/ graph_data[1].rows[i].val["fromId"]
                           # graph_data[1].rows[j].val["fromId"]
                     \/ i - j >= 7)
                    => WindowOf(other, graph_data[1].rows[i].idx)
                          = WindowOf(featured[1].rows, graph_data[1].rows[i].idx)

C29_Witness ==
    /\ featured # None
    /\ \E i, j \in 1..Len(graph_data[1].rows) :
          /\ i - j >= 7
          /\ graph_data[1].rows[i].val["fromId"] = graph_data[1].rows[j].val["fromId"]
          /\ graph_data[1].rows[i].val["txAmount"] # graph_data[1].rows[j].val["txAmount"]
          /\ featured[1].rows[i].val["min7PrevTxAmount"]
                = featured[1].rows[i].val["max7PrevTxAmount"]

\* the record sets a Datasets may have been built from: the loaded one and
\* the joined one without its id column
ConstructorInputs ==
    {data} \cup (IF allFeatures = None THEN {} ELSE {drop(allFeatures[1], {"id"})})

\* what the constructor was handed is what original_data still holds, with
\* the identifier columns and the missing previousTxType values, and the
\* join is the join of the loaded record set
InputKept ==
    /\ \A name \in DatasetNames :
          datasets[name] # None =>
             /\ datasets[name][1].original_data \in ConstructorInputs
             /\ DroppedColumns \subseteq Range(datasets[name][1].original_data.columns)
             /\ datasets[name][1].original_data # datasets[name][1].data
    /\ datasets["ml_data"] # None =>
          /\ datasets["ml_data"][1].original_data = data
          /\ \A i \in 1..Len(data.rows) :
                datasets["ml_data"][1].original_data.rows[i].val["previousTxType"]
                   = data.rows[i].val["previousTxType"]
    /\ allFeatures # None =>
          allFeatures[1] = merge(data, graphFeatures, "toId", "id")

\* C28: building a Datasets changes neither the loaded record set nor what
\* original_data holds: the identifier columns are still there and the
\* missing previousTxType values are still missing, so the join on toId
\* and the second Datasets work on the unmodified input
C28_ConstructorKeepsInput ==
    /\ data \in InputFrames
    /\ DroppedColumns \subseteq Range(data.columns)
    /\ InputKept

C28_Witness ==
    /\ datasets["ml_data"] # None
    /\ datasets["graph_ml_data"] # None
    /\ allFeatures # None
    /\ datasets["graph_ml_data"][1].original_data = drop(allFeatures[1], {"id"})
    /\ \E i \in 1..Len(data.rows) :
          /\ data.rows[i].val["previousTxType"] = NaN
          /\ datasets["ml_data"][1].data.rows[i].val["previousTxType"] = First
    /\ \E i \in 1..Len(allFeatures[1].rows) :
          allFeatures[1].rows[i].val["previousTxType"] = NaN

\* how often name c occurs in the list names
Occurrences(names, c) == Cardinality({j \in 1..Len(names) : names[j] = c})

\* C27: the two selectors split the columns of a record set between them;
\* every column is selected by exactly one of them, so the two results side
\* by side hold every column once, and a selector no column matches
\* returns a result of zero columns without an error
C27_SelectorsPartitionColumns ==
    X_Transformed # None =>
       LET X == X_Transformed[1].src
           quant == pipeline.quant_names[1]
           qual == pipeline.qual_names[1]
       IN  /\ lastError = NoError
           /\ \A c \in Range(X.columns) :
                 Occurrences(quant, c) + Occurrences(qual, c) = 1
           /\ Range(quant) \cup Range(qual) \subseteq Range(X.columns)
           /\ Len(X_Transformed[1].out) = Len(X.rows)
           /\ \A i \in 1..Len(X.rows) :
                 /\ Len(X_Transformed[1].out[i]) = Len(X.columns)
                 /\ \A j \in 1..Len(quant) :
                       X_Transformed[1].out[i][j] = X.rows[i].val[quant[j]]
                 /\ \A j \in 1..Len(qual) :
                       X_Transformed[1].out[i][Len(quant) + j] = X.rows[i].val[qual[j]]

C27_Witness ==
    /\ X_Transformed # None
    /\ lastError = NoError
    /\ pipeline.qual_names = Some(<<>>)
    /\ Len(pipeline.quant_names[1]) >= 2
    /\ Len(X_Transformed[1].src.rows) >= 2

\* C26: what the test-performance cell puts out are the measures computed
\* from the test labels and the predictions on the test set
C26_ShowsTestMeasures ==
    shown # None =>
       /\ measures["test_performance_measures"] # None
       /\ shown[1] = measures["test_performance_measures"][1]
====
